---- MODULE Spec2Model ----
(***************************************************************************)
(* Model of the batch executor of                                          *)
(* core/lib/zksync_core/src/state_keeper/batch_executor/main_executor.rs:  *)
(* the command loop CommandReceiver::run, its four command handlers, the   *)
(* bytecode-compression retry and the block-tip dry run, running on a VM   *)
(* that keeps a stack of snapshots.                                        *)
(***************************************************************************)
EXTENDS Integers, Sequences, FiniteSets, TLC

\* The batch executor.
VARIABLES cfg, storage, handle, queue, caller, rx, reply, vm, pc, hist, cur, sent

\* ZkStackService of core/node/node_framework/src/service/mod.rs.
VARIABLES layers, wired, errors, added, handles, oneshots, stop_signal, spc, polled, resolved, run_result, finish_order

\* SocketListener of prover/prover_fri/src/socket_listener.rs, the witness
\* vector queue it shares with the prover, and the prover-instance status.
VARIABLES witness_queue, lock, listener, prover, instance_status, status, after_add, writes, accepted

executor_vars == <<cfg, storage, handle, queue, caller, rx, reply, vm, pc, hist, cur, sent>>

service_vars == <<layers, wired, errors, added, handles, oneshots, stop_signal, spc, polled, resolved, run_result, finish_order>>

listener_vars == <<witness_queue, lock, listener, prover, instance_status, status, after_add, writes, accepted>>

vars == <<executor_vars, service_vars, listener_vars>>

\* No socket listener is running.
ListenerNotRun ==
    /\ witness_queue = <<>>
    /\ lock = "none"
    /\ listener = "not_run"
    /\ prover = "not_run"
    /\ instance_status = "None"
    /\ status = "None"
    /\ after_add = <<>>
    /\ writes = <<>>
    /\ accepted = 0

\* No ZkStackService::run is going on.
ServiceNotRun ==
    /\ layers = <<>>
    /\ wired = 0
    /\ errors = <<>>
    /\ added = <<>>
    /\ handles = <<>>
    /\ oneshots = <<>>
    /\ stop_signal = FALSE
    /\ spc = "not_run"
    /\ polled = 0
    /\ resolved = 0
    /\ run_result = "None"
    /\ finish_order = <<>>

(* ------------------------------ bounds ------------------------------- *)

\* Number of commands the caller sends to one engine.
MaxCommands == 4

\* Number of ExecuteTx commands among them.
MaxTxs == 2

\* Largest gas limit a transaction declares.
MaxGasLimit == 2

\* Configured ceiling MainBatchExecutor::max_allowed_tx_gas_limit.
max_allowed_tx_gas_limit == 1

\* Capacity of the commands channel, mpsc::channel(1).
QueueCapacity == 1

(* --------------------------- result values --------------------------- *)

Success == [kind |-> "Success", reason |-> "None"]

Revert == [kind |-> "Revert", reason |-> "None"]

Halt(reason) == [kind |-> "Halt", reason |-> reason]

\* Halt reasons a transaction's own execution ends with.
TxHaltReasons == {"BootloaderOutOfGas", "ValidationFailed"}

TxResults == {Success, Revert} \cup {Halt(r) : r \in TxHaltReasons}

\* Outcome of the batch finalization once the transaction is part of the
\* state: the first applied transaction that breaks finalization decides.
TipResults == {Success, Revert, Halt("BootloaderOutOfGas"), Halt("UnexpectedVMBehavior")}

\* Outcome of publishing the transaction's bytecodes: "ok" always publishes,
\* "incompatible" fails exactly when compression is applied, "broken" fails
\* even when compression is not applied.
PublishKinds == {"ok", "incompatible", "broken"}

\* ExecutionResult::is_failed
is_failed(result) == result.kind \in {"Revert", "Halt"}

\* The transactions with hash h the caller submits.  One above the ceiling
\* stands for all of them (the engine reads nothing but its gas limit).  The
\* engine tells a halt from any other result and nothing more, so a reverted
\* transaction is enumerated with a successful finalization only; a halted
\* transaction never becomes part of a finalized batch and one whose
\* publication is broken is rejected or aborts the engine, so their other
\* fields are not varied either.
Transactions(h) ==
    [hash : {h}, gas_limit : (max_allowed_tx_gas_limit + 1)..MaxGasLimit,
     publish : {"ok"}, result : {Success}, tip : {Success}]
    \cup [hash : {h}, gas_limit : 1..max_allowed_tx_gas_limit,
          publish : {"ok", "incompatible"}, result : {Success},
          tip : TipResults]
    \cup [hash : {h}, gas_limit : 1..max_allowed_tx_gas_limit,
          publish : {"ok", "incompatible"},
          result : {Revert} \cup {Halt(r) : r \in TxHaltReasons},
          tip : {Success}]
    \cup [hash : {h}, gas_limit : 1..max_allowed_tx_gas_limit,
          publish : {"broken"}, result : {Success}, tip : {Success}]

NoTx == [hash |-> 0]

(* ----------------------------- the VM -------------------------------- *)

EmptyState == [log |-> <<>>, block |-> 0]

\* VmInstance::new: no transaction applied, no snapshot, first L2 block.
NewVm ==
    [state |-> EmptyState, snapshots |-> <<>>, ops |-> <<>>, panicked |-> FALSE,
     \* reads of the witness state from the storage view the VM runs on
     witness_reads |-> 0]

Op(v, name) == [v EXCEPT !.ops = Append(@, name)]

make_snapshot(v) ==
    [Op(v, "make_snapshot") EXCEPT !.snapshots = Append(@, v.state)]

\* Restores the latest snapshot and destroys it; panics when there is none.
rollback_to_the_latest_snapshot(v) ==
    IF v.snapshots = <<>>
    THEN [Op(v, "rollback") EXCEPT !.panicked = TRUE]
    ELSE [Op(v, "rollback") EXCEPT
            !.state = v.snapshots[Len(v.snapshots)],
            !.snapshots = SubSeq(v.snapshots, 1, Len(v.snapshots) - 1)]

\* Destroys the latest snapshot, keeping the state; nothing when there is none.
pop_snapshot_no_rollback(v) ==
    IF v.snapshots = <<>>
    THEN Op(v, "pop_snapshot")
    ELSE [Op(v, "pop_snapshot") EXCEPT
            !.snapshots = SubSeq(v.snapshots, 1, Len(v.snapshots) - 1)]

start_new_l2_block(v) ==
    [Op(v, "start_new_l2_block") EXCEPT !.state.block = @ + 1]

\* Whether the bytecodes of tx get published by an execution.
Published(tx, with_compression) ==
    CASE tx.publish = "ok" -> TRUE
      [] tx.publish = "incompatible" -> ~with_compression
      [] OTHER -> FALSE

\* The effect an execution of tx leaves in the VM state.
TxEntry(tx, with_compression) ==
    [op |-> "tx", hash |-> tx.hash, tip |-> tx.tip,
     mode |-> IF ~Published(tx, with_compression) THEN "publish_failed"
              ELSE IF with_compression THEN "compressed" ELSE "plain"]

TipEntry == [op |-> "tip", hash |-> 0, tip |-> Success, mode |-> "plain"]

\* VmExecutionResultAndLogs of executing `what`.
ResultAndLogs(result, what) == [result |-> result, logs |-> what]

inspect_transaction_with_bytecode_compression(v, tx, with_compression) ==
    [vm |-> [Op(v, "inspect_transaction") EXCEPT
               !.state.log = Append(@, TxEntry(tx, with_compression))],
     published |-> Published(tx, with_compression),
     result |-> ResultAndLogs(tx.result, <<"tx", tx.hash>>)]

get_last_tx_compressed_bytecodes(v) ==
    LET log == v.state.log IN
    IF log # <<>> /\ log[Len(log)].op = "tx" /\ log[Len(log)].mode = "compressed"
    THEN <<log[Len(log)].hash>>
    ELSE <<>>

gas_remaining(v) == <<"gas_after", v.state.log>>

\* Finalization is a function of the VM state: it succeeds on a state all of
\* whose transactions allow it, else the first one that does not decides.
RECURSIVE BlockTipResult(_)
BlockTipResult(log) ==
    IF log = <<>> THEN Success
    ELSE IF Head(log).op = "tx" /\ Head(log).tip # Success THEN Head(log).tip
    ELSE BlockTipResult(Tail(log))

\* vm.execute(VmExecutionMode::Bootloader)
execute_bootloader(v) ==
    [vm |-> [Op(v, "execute_bootloader") EXCEPT !.state.log = Append(@, TipEntry)],
     result |-> ResultAndLogs(BlockTipResult(v.state.log), <<"tip", Len(v.state.log)>>)]

\* VmInterface::finish_batch
vm_finish_batch(v) ==
    [vm |-> [Op(v, "finish_batch") EXCEPT !.state.log = Append(@, TipEntry)],
     block_tip_execution_result |->
        ResultAndLogs(BlockTipResult(v.state.log), <<"tip", Len(v.state.log)>>)]

\* StorageView::witness_block_state
witness_block_state(v) == <<"witness", v.state.log>>

(* ---------------------------- the engine ----------------------------- *)

\* ExecutionMetricsForCriteria::new
ExecutionMetricsForCriteria(tx, result) == [tx |-> tx.hash, of |-> result]

\* The call trace the CallTracer collected, empty when none is attached.
CallTrace(c, tx) == IF c.save_call_traces THEN <<tx.hash>> ELSE <<>>

\* dryrun_block_tip that never rolls its snapshot back.
dryrun_block_tip_no_rollback(v) ==
    LET v1 == make_snapshot(v)
        r  == execute_bootloader(v1)
        metrics == ExecutionMetricsForCriteria(NoTx, r.result)
    IN [vm |-> r.vm, result |-> r.result, metrics |-> metrics]

\* dryrun_block_tip that discards its snapshot instead of rolling back.
dryrun_block_tip_pop(v) ==
    LET v1 == make_snapshot(v)
        r  == execute_bootloader(v1)
        metrics == ExecutionMetricsForCriteria(NoTx, r.result)
        v3 == pop_snapshot_no_rollback(r.vm)
    IN [vm |-> v3, result |-> r.result, metrics |-> metrics]

dryrun_block_tip(v) ==
    LET v1 == make_snapshot(v)
        r  == execute_bootloader(v1)
        metrics == ExecutionMetricsForCriteria(NoTx, r.result)
        v3 == rollback_to_the_latest_snapshot(r.vm)
    IN [vm |-> v3, result |-> r.result, metrics |-> metrics]

\* execute_tx_in_vm that returns the VM's result when the publication failed.
execute_tx_in_vm_no_override(c, tx, v) ==
    LET r == inspect_transaction_with_bytecode_compression(v, tx, TRUE) IN
    [vm |-> r.vm, result |-> r.result,
     compressed_bytecodes |-> get_last_tx_compressed_bytecodes(r.vm),
     trace |-> CallTrace(c, tx), panic |-> FALSE]

execute_tx_in_vm(c, tx, v) ==
    LET r == inspect_transaction_with_bytecode_compression(v, tx, TRUE) IN
    IF r.published
    THEN [vm |-> r.vm, result |-> r.result,
          compressed_bytecodes |-> get_last_tx_compressed_bytecodes(r.vm),
          trace |-> CallTrace(c, tx), panic |-> FALSE]
    ELSE [vm |-> r.vm,
          result |-> [r.result EXCEPT
                        !.result = Halt("FailedToPublishCompressedBytecodes")],
          compressed_bytecodes |-> <<>>,
          trace |-> <<>>, panic |-> FALSE]

\* The retry protocol that forgets to discard its snapshot when the first
\* attempt is kept.
execute_tx_in_vm_with_optional_compression_no_pop(c, tx, v) ==
    LET v1 == make_snapshot(v)
        r1 == inspect_transaction_with_bytecode_compression(v1, tx, TRUE)
    IN
    IF r1.published
    THEN [vm |-> r1.vm, result |-> r1.result,
          compressed_bytecodes |-> get_last_tx_compressed_bytecodes(r1.vm),
          trace |-> CallTrace(c, tx), panic |-> FALSE]
    ELSE
      LET v2 == rollback_to_the_latest_snapshot(r1.vm)
          r2 == inspect_transaction_with_bytecode_compression(v2, tx, FALSE)
      IN [vm |-> r2.vm, result |-> r2.result,
          compressed_bytecodes |-> get_last_tx_compressed_bytecodes(r2.vm),
          trace |-> CallTrace(c, tx),
          panic |-> ~r2.published]

\* The retry protocol that re-executes on top of the failed first attempt.
execute_tx_in_vm_with_optional_compression_no_rollback(c, tx, v) ==
    LET v1 == make_snapshot(v)
        r1 == inspect_transaction_with_bytecode_compression(v1, tx, TRUE)
    IN
    IF r1.published
    THEN [vm |-> pop_snapshot_no_rollback(r1.vm), result |-> r1.result,
          compressed_bytecodes |-> get_last_tx_compressed_bytecodes(r1.vm),
          trace |-> CallTrace(c, tx), panic |-> FALSE]
    ELSE
      LET v2 == pop_snapshot_no_rollback(r1.vm)
          r2 == inspect_transaction_with_bytecode_compression(v2, tx, FALSE)
      IN [vm |-> r2.vm, result |-> r2.result,
          compressed_bytecodes |-> get_last_tx_compressed_bytecodes(r2.vm),
          trace |-> CallTrace(c, tx),
          panic |-> ~r2.published]

\* The retry protocol that takes the second attempt's result unchecked.
execute_tx_in_vm_with_optional_compression_unchecked(c, tx, v) ==
    LET v1 == make_snapshot(v)
        r1 == inspect_transaction_with_bytecode_compression(v1, tx, TRUE)
    IN
    IF r1.published
    THEN [vm |-> pop_snapshot_no_rollback(r1.vm), result |-> r1.result,
          compressed_bytecodes |-> get_last_tx_compressed_bytecodes(r1.vm),
          trace |-> CallTrace(c, tx), panic |-> FALSE]
    ELSE
      LET v2 == rollback_to_the_latest_snapshot(r1.vm)
          r2 == inspect_transaction_with_bytecode_compression(v2, tx, FALSE)
      IN [vm |-> r2.vm, result |-> r2.result,
          compressed_bytecodes |-> get_last_tx_compressed_bytecodes(r2.vm),
          trace |-> CallTrace(c, tx),
          panic |-> FALSE]

\* The retry protocol that keeps the first attempt only when the bytecodes
\* were published and the transaction did not fail.
execute_tx_in_vm_with_optional_compression_retry_failed(c, tx, v) ==
    LET v1 == make_snapshot(v)
        r1 == inspect_transaction_with_bytecode_compression(v1, tx, TRUE)
    IN
    IF r1.published /\ ~is_failed(r1.result.result)
    THEN [vm |-> pop_snapshot_no_rollback(r1.vm), result |-> r1.result,
          compressed_bytecodes |-> get_last_tx_compressed_bytecodes(r1.vm),
          trace |-> CallTrace(c, tx), panic |-> FALSE]
    ELSE
      LET v2 == rollback_to_the_latest_snapshot(r1.vm)
          r2 == inspect_transaction_with_bytecode_compression(v2, tx, FALSE)
      IN [vm |-> r2.vm, result |-> r2.result,
          compressed_bytecodes |-> get_last_tx_compressed_bytecodes(r2.vm),
          trace |-> CallTrace(c, tx),
          panic |-> ~r2.published]

execute_tx_in_vm_with_optional_compression(c, tx, v) ==
    LET v1 == make_snapshot(v)
        r1 == inspect_transaction_with_bytecode_compression(v1, tx, TRUE)
    IN
    IF r1.published
    THEN [vm |-> pop_snapshot_no_rollback(r1.vm), result |-> r1.result,
          compressed_bytecodes |-> get_last_tx_compressed_bytecodes(r1.vm),
          trace |-> CallTrace(c, tx), panic |-> FALSE]
    ELSE
      LET v2 == rollback_to_the_latest_snapshot(r1.vm)
          r2 == inspect_transaction_with_bytecode_compression(v2, tx, FALSE)
      IN [vm |-> r2.vm, result |-> r2.result,
          compressed_bytecodes |-> get_last_tx_compressed_bytecodes(r2.vm),
          trace |-> CallTrace(c, tx),
          \* .expect("Compression can't fail if we don't apply it")
          panic |-> ~r2.published]

Panic(v) == [vm |-> v, reply |-> [kind |-> "None"], panic |-> TRUE]

Reply(v, r) == [vm |-> v, reply |-> r, panic |-> FALSE]

\* execute_tx that snapshots the VM twice on entry.
pre_execute_snapshot_twice(v) == make_snapshot(make_snapshot(v))

\* execute_tx without its pre-attempt snapshot.
pre_execute_snapshot_missing(v) == v

\* vm.make_snapshot() on entry of execute_tx.
pre_execute_snapshot(v) == make_snapshot(v)

\* The gas-limit check off by one.
too_big_gas_limit_off_by_one(c, tx) ==
    tx.gas_limit > c.max_allowed_tx_gas_limit + 1

\* tx.gas_limit() > self.max_allowed_tx_gas_limit
too_big_gas_limit(c, tx) == tx.gas_limit > c.max_allowed_tx_gas_limit

\* halt_verdict that rejects whatever the reason.
halt_verdict_all_rejected(reason) == [kind |-> "RejectedByVm", reason |-> reason]

\* The reply for a transaction whose result is Halt { reason }.
halt_verdict(reason) ==
    IF reason = "BootloaderOutOfGas"
    THEN [kind |-> "BootloaderOutOfGasForTx"]
    ELSE [kind |-> "RejectedByVm", reason |-> reason]

\* dry_run_verdict that takes a dry run out of gas for a success.
dry_run_verdict_ignores_out_of_gas(d, tx_result, tx_metrics, compressed_bytecodes, trace, gas) ==
    CASE d.result.result.kind = "Revert" -> Panic(d.vm)
      [] d.result.result.kind = "Halt"
           /\ d.result.result.reason # "BootloaderOutOfGas" -> Panic(d.vm)
      [] OTHER ->
           Reply(d.vm, [kind |-> "Success",
                        tx_result |-> tx_result,
                        tx_metrics |-> tx_metrics,
                        bootloader_dry_run_metrics |-> d.metrics,
                        bootloader_dry_run_result |-> d.result,
                        compressed_bytecodes |-> compressed_bytecodes,
                        call_tracer_result |-> trace,
                        gas_remaining |-> gas])

\* dry_run_verdict that reports the transaction result as the dry-run result.
dry_run_verdict_mixed(d, tx_result, tx_metrics, compressed_bytecodes, trace, gas) ==
    CASE d.result.result.kind = "Success" ->
           Reply(d.vm, [kind |-> "Success",
                        tx_result |-> tx_result,
                        tx_metrics |-> tx_metrics,
                        bootloader_dry_run_metrics |-> tx_metrics,
                        bootloader_dry_run_result |-> tx_result,
                        compressed_bytecodes |-> compressed_bytecodes,
                        call_tracer_result |-> trace,
                        gas_remaining |-> gas])
      [] d.result.result.kind = "Revert" -> Panic(d.vm)
      [] OTHER ->
           IF d.result.result.reason = "BootloaderOutOfGas"
           THEN Reply(d.vm, [kind |-> "BootloaderOutOfGasForBlockTip"])
           ELSE Panic(d.vm)

\* dry_run_verdict that undoes the transaction when the block tip runs out
\* of gas.
dry_run_verdict_undoes_out_of_gas(d, tx_result, tx_metrics, compressed_bytecodes, trace, gas) ==
    CASE d.result.result.kind = "Success" ->
           Reply(d.vm, [kind |-> "Success",
                        tx_result |-> tx_result,
                        tx_metrics |-> tx_metrics,
                        bootloader_dry_run_metrics |-> d.metrics,
                        bootloader_dry_run_result |-> d.result,
                        compressed_bytecodes |-> compressed_bytecodes,
                        call_tracer_result |-> trace,
                        gas_remaining |-> gas])
      [] d.result.result.kind = "Revert" -> Panic(d.vm)
      [] OTHER ->
           IF d.result.result.reason = "BootloaderOutOfGas"
           THEN Reply(rollback_to_the_latest_snapshot(d.vm),
                      [kind |-> "BootloaderOutOfGasForBlockTip"])
           ELSE Panic(d.vm)

\* dry_run_verdict that answers a failed dry run instead of aborting.
dry_run_verdict_failure_as_value(d, tx_result, tx_metrics, compressed_bytecodes, trace, gas) ==
    CASE d.result.result.kind = "Success" ->
           Reply(d.vm, [kind |-> "Success",
                        tx_result |-> tx_result,
                        tx_metrics |-> tx_metrics,
                        bootloader_dry_run_metrics |-> d.metrics,
                        bootloader_dry_run_result |-> d.result,
                        compressed_bytecodes |-> compressed_bytecodes,
                        call_tracer_result |-> trace,
                        gas_remaining |-> gas])
      [] d.result.result.kind = "Revert" ->
           Reply(d.vm, [kind |-> "RejectedByVm", reason |-> "Revert"])
      [] OTHER ->
           IF d.result.result.reason = "BootloaderOutOfGas"
           THEN Reply(d.vm, [kind |-> "BootloaderOutOfGasForBlockTip"])
           ELSE Reply(d.vm, [kind |-> "RejectedByVm",
                             reason |-> d.result.result.reason])

\* The match on the result of the block-tip dry run d.
dry_run_verdict(d, tx_result, tx_metrics, compressed_bytecodes, trace, gas) ==
    CASE d.result.result.kind = "Success" ->
           Reply(d.vm, [kind |-> "Success",
                        tx_result |-> tx_result,
                        tx_metrics |-> tx_metrics,
                        bootloader_dry_run_metrics |-> d.metrics,
                        bootloader_dry_run_result |-> d.result,
                        compressed_bytecodes |-> compressed_bytecodes,
                        call_tracer_result |-> trace,
                        gas_remaining |-> gas])
      [] d.result.result.kind = "Revert" -> Panic(d.vm)
      [] OTHER ->
           IF d.result.result.reason = "BootloaderOutOfGas"
           THEN Reply(d.vm, [kind |-> "BootloaderOutOfGasForBlockTip"])
           ELSE Panic(d.vm)

\* execute_tx that rejects every failed transaction, reverts included.
execute_tx_rejects_failures(c, tx, v) ==
    LET v1 == pre_execute_snapshot(v) IN
    IF too_big_gas_limit(c, tx)
    THEN Reply(v1, [kind |-> "RejectedByVm", reason |-> "TooBigGasLimit"])
    ELSE
      LET e == IF c.optional_bytecode_compression
               THEN execute_tx_in_vm_with_optional_compression(c, tx, v1)
               ELSE execute_tx_in_vm(c, tx, v1)
          tx_result == e.result
      IN
      IF e.panic THEN Panic(e.vm)
      ELSE IF tx_result.result.kind = "Halt"
      THEN Reply(e.vm, halt_verdict(tx_result.result.reason))
      ELSE IF is_failed(tx_result.result)
      THEN Reply(e.vm, [kind |-> "RejectedByVm", reason |-> "Revert"])
      ELSE
        LET tx_metrics == ExecutionMetricsForCriteria(tx, tx_result)
            gas == gas_remaining(e.vm)
            d == dryrun_block_tip(e.vm)
        IN dry_run_verdict(d, tx_result, tx_metrics, e.compressed_bytecodes,
                           e.trace, gas)

\* execute_tx that checks the gas limit after executing the transaction.
execute_tx_late_gas_check(c, tx, v) ==
    LET v1 == pre_execute_snapshot(v)
        e == IF c.optional_bytecode_compression
             THEN execute_tx_in_vm_with_optional_compression(c, tx, v1)
             ELSE execute_tx_in_vm(c, tx, v1)
        tx_result == e.result
    IN
    IF e.panic THEN Panic(e.vm)
    ELSE IF too_big_gas_limit(c, tx)
    THEN Reply(e.vm, [kind |-> "RejectedByVm", reason |-> "TooBigGasLimit"])
    ELSE IF tx_result.result.kind = "Halt"
    THEN Reply(e.vm, halt_verdict(tx_result.result.reason))
    ELSE
      LET tx_metrics == ExecutionMetricsForCriteria(tx, tx_result)
          gas == gas_remaining(e.vm)
          d == dryrun_block_tip(e.vm)
      IN dry_run_verdict(d, tx_result, tx_metrics, e.compressed_bytecodes,
                         e.trace, gas)

execute_tx(c, tx, v) ==
    LET v1 == pre_execute_snapshot(v) IN
    IF too_big_gas_limit(c, tx)
    THEN Reply(v1, [kind |-> "RejectedByVm", reason |-> "TooBigGasLimit"])
    ELSE
      LET e == IF c.optional_bytecode_compression
               THEN execute_tx_in_vm_with_optional_compression(c, tx, v1)
               ELSE execute_tx_in_vm(c, tx, v1)
          tx_result == e.result
      IN
      IF e.panic THEN Panic(e.vm)
      ELSE IF tx_result.result.kind = "Halt"
      THEN Reply(e.vm, halt_verdict(tx_result.result.reason))
      ELSE
        LET tx_metrics == ExecutionMetricsForCriteria(tx, tx_result)
            gas == gas_remaining(e.vm)
            d == dryrun_block_tip(e.vm)
        IN dry_run_verdict(d, tx_result, tx_metrics, e.compressed_bytecodes,
                           e.trace, gas)

\* rollback_last_tx that discards the snapshot and keeps the state.
rollback_last_tx_pop(v) == pop_snapshot_no_rollback(v)

rollback_last_tx(v) == rollback_to_the_latest_snapshot(v)

\* start_next_miniblock that snapshots the VM before the new block.
start_next_miniblock_snapshots(v) == start_new_l2_block(make_snapshot(v))

start_next_miniblock(v) == start_new_l2_block(v)

\* finish_batch that aborts on a halt only, not on a revert.
finish_batch_halt_only(v) ==
    LET r == vm_finish_batch(v) IN
    [vm |-> r.vm, result |-> r.block_tip_execution_result,
     panic |-> r.block_tip_execution_result.result.kind = "Halt"]


finish_batch(v) ==
    LET r == vm_finish_batch(v) IN
    [vm |-> r.vm, result |-> r.block_tip_execution_result,
     panic |-> is_failed(r.block_tip_execution_result.result)]

(* --------------------------- the command loop ------------------------ *)

Config(compression, traces, witness) ==
    [save_call_traces |-> traces,
     max_allowed_tx_gas_limit |-> max_allowed_tx_gas_limit,
     optional_bytecode_compression |-> compression,
     upload_witness_inputs_to_gcs |-> witness]

\* The configurations an engine is constructed with: every value of each of
\* the three switches, and every pair of values of two of them.
Configs ==
    {Config(TRUE, TRUE, TRUE), Config(TRUE, FALSE, FALSE),
     Config(FALSE, TRUE, FALSE), Config(FALSE, FALSE, TRUE)}

NoReply == [kind |-> "None"]

NoCommand == [kind |-> "None"]

\* What is compared when two VM states are said to be equal.
View(v) == [state |-> v.state, snapshots |-> v.snapshots]

\* What factory.access_storage(..) yields in the spawned task: Ok(Some(..)),
\* a storage; Ok(None), none once the stop signal is raised; Err(..).
StorageOutcomes == {"Some", "None", "Err"}

\* MainBatchExecutor::init_batch: the channel is made, the task is spawned
\* and the handle is returned at once, before the task has asked for the
\* storage.
init_batch ==
    [handle |-> "Some", task |-> "starting"]

\* Where the closure given to spawn_blocking goes once access_storage has
\* yielded s: into executor.run(..) on Some, to its end on None, and into the
\* panic of .expect(..) on Err.
spawned_task(s) ==
    CASE s = "Some" -> "running"
      [] s = "None" -> "no_storage"
      [] s = "Err" -> "panicked"

\* The state in which init_batch returns. `storage` is what the factory is
\* going to yield; `vm` is the VM that run() builds, in use from
\* pc = "running" on.
Init ==
    /\ cfg \in Configs
    /\ storage \in StorageOutcomes
    /\ handle = init_batch.handle
    /\ queue = <<>>
    /\ caller = "idle"
    /\ rx = "none"
    /\ reply = NoReply
    /\ vm = NewVm
    /\ pc = init_batch.task
    /\ hist = <<>>
    /\ cur = NoCommand
    /\ sent = 0
    /\ ServiceNotRun
    /\ ListenerNotRun

Commands(h) ==
    {[kind |-> "ExecuteTx", tx |-> t] : t \in Transactions(h)}
    \cup {[kind |-> "RollbackLastTx"], [kind |-> "StartNextMiniblock"],
          [kind |-> "FinishBatch"]}

TxsSent == Cardinality({i \in DOMAIN hist : hist[i].kind = "ExecuteTx"})

\* The spawned task gets the answer of access_storage. With a storage it
\* builds the VM and enters the loop of run(); with none, or with an error,
\* it ends, and the command receiver it owns is dropped together with the
\* command that waits in the channel, which is never answered.
AccessStorage ==
    /\ pc = "starting"
    /\ pc' = spawned_task(storage)
    /\ vm' = NewVm
    /\ queue' = IF storage = "Some" THEN queue ELSE <<>>
    /\ UNCHANGED <<listener_vars, service_vars, cfg, storage, handle, caller, rx, reply, hist, cur, sent>>

\* The task holds the receiving end of the commands channel: from its
\* spawn until it ends, by the return of the closure or of run(), or by the
\* unwinding of a panic.
ReceiverAlive == pc \in {"starting", "running", "sealing", "unwinding"}

\* The caller sends a command together with a fresh reply channel; the
\* channel takes it as long as the task holds the receiver.
Send ==
    /\ caller = "idle"
    /\ ReceiverAlive
    /\ Len(queue) < QueueCapacity
    /\ sent < MaxCommands
    /\ \E cmd \in Commands(sent + 1) :
          /\ cmd.kind = "ExecuteTx" => TxsSent < MaxTxs
          /\ queue' = Append(queue, cmd)
    /\ caller' = "awaiting"
    /\ rx' = "open"
    /\ reply' = NoReply
    /\ sent' = sent + 1
    /\ UNCHANGED <<listener_vars, service_vars, cfg, storage, handle, vm, pc, hist, cur>>

\* The caller drops the receiving end of the reply channel before the reply.
DropReceiver ==
    /\ caller = "awaiting"
    /\ rx = "open"
    /\ queue # <<>>
    /\ rx' = "dropped"
    /\ UNCHANGED <<listener_vars, service_vars, cfg, storage, handle, queue, caller, reply, vm, pc, hist, cur, sent>>

\* The caller takes the reply of its command.
ReceiveReply ==
    /\ caller = "awaiting"
    /\ reply # NoReply
    /\ caller' = "idle"
    /\ UNCHANGED <<listener_vars, service_vars, cfg, storage, handle, queue, rx, reply, vm, pc, hist, cur, sent>>

\* The reply sender of the caller's command was dropped with no reply sent,
\* by a panic of the handler or together with the command in the channel:
\* the caller's wait for the reply ends with an error.
ReceiveError ==
    /\ caller = "awaiting"
    /\ rx = "open"
    /\ reply = NoReply
    /\ queue = <<>>
    /\ pc \in {"unwinding", "panicked", "no_storage", "sealed"}
    /\ caller' = "idle"
    /\ UNCHANGED <<listener_vars, service_vars, cfg, storage, handle, queue, rx, reply, vm, pc, hist, cur, sent>>

\* The caller drops the command sender while the task may still wait for a
\* command.
CloseQueue ==
    /\ caller = "idle"
    /\ pc \in {"starting", "running"}
    /\ caller' = "closed"
    /\ UNCHANGED <<listener_vars, service_vars, cfg, storage, handle, queue, rx, reply, vm, pc, hist, cur, sent>>

Record(kind, verdict, v1) ==
    [kind |-> kind, verdict |-> verdict.kind,
     reason |-> IF verdict.kind = "RejectedByVm" THEN verdict.reason ELSE "None",
     post |-> View(v1)]

\* Step that ignores the error of resp.send(..).
Step_ignores_send_error(cmd, out, last) ==
    LET failed == out.panic \/ out.vm.panicked IN
    /\ queue' = Tail(queue)
    /\ cur' = cmd
    /\ vm' = out.vm
    /\ reply' = IF failed \/ rx = "dropped" THEN NoReply ELSE out.reply
    /\ pc' = IF failed THEN "unwinding" ELSE IF last THEN "sealing" ELSE "running"
    /\ hist' = Append(hist, Record(cmd.kind, IF failed THEN [kind |-> "Panic"] ELSE out.reply, out.vm))
    /\ UNCHANGED <<listener_vars, service_vars, cfg, storage, handle, caller, rx, sent>>

\* Step that goes back to recv() after a FinishBatch instead of returning.
Step_stays_in_loop(cmd, out, last) ==
    LET failed == out.panic \/ out.vm.panicked \/ rx = "dropped" IN
    /\ queue' = Tail(queue)
    /\ cur' = cmd
    /\ vm' = out.vm
    /\ reply' = IF failed THEN NoReply ELSE out.reply
    /\ pc' = IF failed THEN "unwinding" ELSE "running"
    /\ hist' = Append(hist, Record(cmd.kind, IF out.panic \/ out.vm.panicked THEN [kind |-> "Panic"] ELSE out.reply, out.vm))
    /\ UNCHANGED <<listener_vars, service_vars, cfg, storage, handle, caller, rx, sent>>

\* Step that handles the command and goes on without resp.send(..).
Step_no_reply(cmd, out, last) ==
    LET failed == out.panic \/ out.vm.panicked IN
    /\ queue' = Tail(queue)
    /\ cur' = cmd
    /\ vm' = out.vm
    /\ reply' = NoReply
    /\ pc' = IF failed THEN "unwinding" ELSE IF last THEN "sealing" ELSE "running"
    /\ hist' = Append(hist, Record(cmd.kind, IF failed THEN [kind |-> "Panic"] ELSE out.reply, out.vm))
    /\ UNCHANGED <<listener_vars, service_vars, cfg, storage, handle, caller, rx, sent>>

\* One iteration of the loop of CommandReceiver::run: the command `cmd` is
\* received, handled by `out` (the VM after it, the reply, whether it
\* panicked) and answered with resp.send(..).unwrap(). After the reply of a
\* FinishBatch the task is on its way to the return of run(), after a panic
\* it unwinds; it holds the command receiver until it has ended.
Step(cmd, out, last) ==
    LET failed == out.panic \/ out.vm.panicked \/ rx = "dropped" IN
    /\ queue' = Tail(queue)
    /\ cur' = cmd
    /\ vm' = out.vm
    /\ reply' = IF failed THEN NoReply ELSE out.reply
    /\ pc' = IF failed THEN "unwinding" ELSE IF last THEN "sealing" ELSE "running"
    /\ hist' = Append(hist,
                 Record(cmd.kind,
                        IF out.panic \/ out.vm.panicked THEN [kind |-> "Panic"]
                        ELSE out.reply,
                        out.vm))
    /\ UNCHANGED <<listener_vars, service_vars, cfg, storage, handle, caller, rx, sent>>

Fresh(v) == [v EXCEPT !.ops = <<>>]

Received(kind) == pc = "running" /\ queue # <<>> /\ Head(queue).kind = kind

ExecuteTx ==
    /\ Received("ExecuteTx")
    /\ Step(Head(queue), execute_tx(cfg, Head(queue).tx, Fresh(vm)), FALSE)

RollbackLastTx ==
    /\ Received("RollbackLastTx")
    /\ Step(Head(queue),
            Reply(rollback_last_tx(Fresh(vm)), [kind |-> "Ack"]), FALSE)

StartNextMiniblock ==
    /\ Received("StartNextMiniblock")
    /\ Step(Head(queue),
            Reply(start_next_miniblock(Fresh(vm)), [kind |-> "Ack"]), FALSE)

\* capture_witness that reads the witness state whatever the configuration.
capture_witness_always(upload, v) ==
    [vm |-> [v EXCEPT !.witness_reads = @ + 1],
     witness |-> <<witness_block_state(v)>>]

\* The witness state of the FinishBatch reply: read from the storage view
\* when upload_witness_inputs_to_gcs is set, None otherwise.
capture_witness(upload, v) ==
    IF upload
    THEN [vm |-> [v EXCEPT !.witness_reads = @ + 1],
          witness |-> <<witness_block_state(v)>>]
    ELSE [vm |-> v, witness |-> <<>>]

FinishBatch ==
    /\ Received("FinishBatch")
    /\ LET r == finish_batch(Fresh(vm))
           w == IF r.panic THEN [vm |-> r.vm, witness |-> <<>>]
                ELSE capture_witness(cfg.upload_witness_inputs_to_gcs, r.vm)
       IN Step(Head(queue),
               [vm |-> w.vm, panic |-> r.panic,
                reply |-> [kind |-> "FinishedBatch",
                           block_tip_execution_result |-> r.result,
                           witness_block_state |-> w.witness]],
               TRUE)

\* Exit that finalizes the batch when the queue is closed.
Exit_finalizes ==
    /\ pc = "running"
    /\ queue = <<>>
    /\ caller = "closed"
    /\ LET r == finish_batch(Fresh(vm)) IN
         /\ vm' = r.vm
         /\ pc' = IF r.panic THEN "unwinding" ELSE "sealing"
    /\ UNCHANGED <<listener_vars, service_vars, cfg, storage, handle, queue, caller, rx, reply, hist, cur, sent>>

\* After the reply of FinishBatch run() reads the storage metrics and
\* returns: the task ends and the command receiver is dropped, together
\* with a command sent since the reply, which is never answered.
ReturnFromRun ==
    /\ pc = "sealing"
    /\ pc' = "sealed"
    /\ queue' = <<>>
    /\ UNCHANGED <<listener_vars, service_vars, cfg, storage, handle, caller, rx, reply, vm, hist, cur, sent>>

\* The unwinding of a panic drops the VM and then the command receiver,
\* together with a command sent since the panic, which is never answered.
Unwind ==
    /\ pc = "unwinding"
    /\ pc' = "panicked"
    /\ queue' = <<>>
    /\ UNCHANGED <<listener_vars, service_vars, cfg, storage, handle, caller, rx, reply, vm, hist, cur, sent>>

\* blocking_recv() returns None: every sender is gone and the queue is empty.
Exit ==
    /\ pc = "running"
    /\ queue = <<>>
    /\ caller = "closed"
    /\ pc' = "exited"
    /\ UNCHANGED <<listener_vars, service_vars, cfg, storage, handle, queue, caller, rx, reply, vm, hist, cur, sent>>

Next ==
    \/ AccessStorage
    \/ Send
    \/ ReceiveReply
    \/ ReceiveError
    \/ CloseQueue
    \/ ExecuteTx
    \/ RollbackLastTx
    \/ StartNextMiniblock
    \/ FinishBatch
    \/ ReturnFromRun
    \/ Unwind
    \/ Exit

Spec == Init /\ [][Next]_vars

\* The same engine with a caller that may abandon a reply channel.
NextDrop == Next \/ DropReceiver

SpecDrop == Init /\ [][NextDrop]_vars

(* -------------------------- ZkStackService --------------------------- *)

\* Number of wiring layers added to the service.
MaxLayers == 2

\* What a task added by a layer is stored as.
TaskKinds ==
    {"task", "unconstrained_task", "oneshot_task", "unconstrained_oneshot_task"}

\* What the wire method of a layer adds to the service.
Additions == TaskKinds \cup {"precondition", "nothing"}

\* A wiring layer: whether its wire method returns an error, and what it
\* adds to the service before it returns.
WiringLayers == [fails : BOOLEAN, adds : Additions]

LayerLists == UNION {[1..n -> WiringLayers] : n \in 0..MaxLayers}

\* How a task ends: Ok(()), Err(..) or a panic.
Outcomes == {"Ok", "Err", "Panic"}

\* No batch executor was initialized.
ExecutorNotRun ==
    /\ cfg = Config(FALSE, FALSE, FALSE)
    /\ storage = "None"
    /\ handle = "None"
    /\ queue = <<>>
    /\ caller = "idle"
    /\ rx = "none"
    /\ reply = NoReply
    /\ vm = NewVm
    /\ pc = "not_run"
    /\ hist = <<>>
    /\ cur = NoCommand
    /\ sent = 0

\* ZkStackService::new followed by the add_layer calls.
InitService ==
    /\ ExecutorNotRun
    /\ ListenerNotRun
    /\ layers \in LayerLists
    /\ wired = 0
    /\ errors = <<>>
    /\ added = <<>>
    /\ handles = <<>>
    /\ oneshots = <<>>
    /\ stop_signal = FALSE
    /\ spc = "wiring"
    /\ polled = 0
    /\ resolved = 0
    /\ run_result = "None"
    /\ finish_order = <<>>

\* Wire that gives up at the first layer that fails.
Wire_bails_on_first_error ==
    /\ spc = "wiring"
    /\ wired < Len(layers)
    /\ LET layer == layers[wired + 1] IN
         /\ added' = IF layer.adds = "nothing" THEN added
                     ELSE Append(added, layer.adds)
         /\ errors' = IF layer.fails THEN Append(errors, wired + 1) ELSE errors
         /\ spc' = IF layer.fails THEN "returned" ELSE spc
         /\ run_result' = IF layer.fails THEN "Err" ELSE run_result
    /\ wired' = wired + 1
    /\ UNCHANGED <<listener_vars, executor_vars, layers, handles, oneshots, stop_signal, resolved, finish_order, polled>>

\* One iteration of `for layer in wiring_layers`: the next layer is wired,
\* and its error, if any, is kept.
Wire ==
    /\ spc = "wiring"
    /\ wired < Len(layers)
    /\ LET layer == layers[wired + 1] IN
         /\ added' = IF layer.adds = "nothing" THEN added
                     ELSE Append(added, layer.adds)
         /\ errors' = IF layer.fails THEN Append(errors, wired + 1) ELSE errors
    /\ wired' = wired + 1
    /\ UNCHANGED <<listener_vars, executor_vars, layers, handles, oneshots, stop_signal, spc, resolved, run_result, finish_order, polled>>

\* The four task lists of the service are empty; preconditions do not count.
NoTasks(a) == \A i \in DOMAIN a : a[i] \notin TaskKinds

\* The two bail!s after the wiring loop.
Bail ==
    /\ spc = "wiring"
    /\ wired = Len(layers)
    /\ errors # <<>> \/ NoTasks(added)
    /\ spc' = "returned"
    /\ run_result' = "Err"
    /\ UNCHANGED <<listener_vars, executor_vars, layers, wired, errors, added, handles, oneshots, stop_signal, resolved, finish_order, polled>>

OfKind(a, kinds) == SelectSeq(a, LAMBDA k : k \in kinds)

Running(kind) == [kind |-> kind, status |-> "running", outcome |-> "None"]

Started(a) == [i \in DOMAIN a |-> Running(a[i])]

only_oneshot_tasks(a) == OfKind(a, {"task", "unconstrained_task"}) = <<>>

\* The futures spawned by run: the unconstrained tasks, the tasks, and the
\* system task that drives the preconditions and the oneshot tasks.
Spawn ==
    /\ spc = "wiring"
    /\ wired = Len(layers)
    /\ errors = <<>>
    /\ ~NoTasks(added)
    /\ handles' = Started(OfKind(added, {"unconstrained_task"})
                          \o OfKind(added, {"task"}) \o <<"system">>)
    /\ oneshots' = Started(OfKind(added, {"precondition"})
                           \o OfKind(added, {"oneshot_task"})
                           \o OfKind(added, {"unconstrained_oneshot_task"}))
    /\ spc' = "waiting"
    /\ UNCHANGED <<listener_vars, executor_vars, layers, wired, errors, added, stop_signal, resolved, run_result, finish_order, polled>>

Finished(h, i, o) == [h EXCEPT ![i].status = "finished", ![i].outcome = o]

\* A task future ends on its worker thread, with or without the stop
\* signal, while run blocks on select_all, goes on to send the stop signal,
\* or waits for the remaining tasks.
TaskFinishes ==
    /\ spc \in {"waiting", "resolved", "stopping"}
    /\ \E i \in DOMAIN handles, o \in Outcomes :
          /\ handles[i].kind # "system"
          /\ handles[i].status = "running"
          /\ handles' = Finished(handles, i, o)
          /\ finish_order' = Append(finish_order, [task |-> i, stopped |-> stop_signal])
    /\ UNCHANGED <<listener_vars, executor_vars, layers, wired, errors, added, oneshots, stop_signal, spc, resolved, run_result, polled>>

System == Len(handles)

\* A precondition or a oneshot task ends. Each is a tokio task of its own,
\* spawned by the system task: when try_join_all returns at the first error
\* the join handles of the others are dropped, and they run on and end
\* after the system task has.
OneshotFinishes ==
    /\ spc \in {"waiting", "resolved", "stopping"}
    /\ \E j \in DOMAIN oneshots, o \in Outcomes :
          /\ oneshots[j].status = "running"
          /\ oneshots' = Finished(oneshots, j, o)
    /\ UNCHANGED <<listener_vars, executor_vars, layers, wired, errors, added, handles, stop_signal, spc, resolved, run_result, finish_order, polled>>

\* What precondition_system_task resolves to, "Pending" while it does not:
\* the error of try_join_all, Ok when only oneshot tasks run and all are
\* done, Ok at the stop signal otherwise.
system_task(o, only_oneshot, stop) ==
    IF \E j \in DOMAIN o : o[j].outcome \in {"Err", "Panic"} THEN "Err"
    ELSE IF \E j \in DOMAIN o : o[j].status = "running" THEN "Pending"
    ELSE IF only_oneshot \/ stop THEN "Ok"
    ELSE "Pending"

SystemTaskFinishes ==
    /\ spc \in {"waiting", "resolved", "stopping"}
    /\ handles[System].status = "running"
    /\ LET o == system_task(oneshots, only_oneshot_tasks(added), stop_signal) IN
         /\ o # "Pending"
         /\ handles' = Finished(handles, System, o)
    /\ finish_order' = Append(finish_order, [task |-> System, stopped |-> stop_signal])
    /\ UNCHANGED <<listener_vars, executor_vars, layers, wired, errors, added, oneshots, stop_signal, spc, resolved, run_result, polled>>

Done(h) == {i \in DOMAIN h : h[i].status = "finished"}

\* futures::future::select_all polls the join handles one after the other
\* in the order of the vector, and its pass ends at the first it finds
\* ready. The poll of the handle after the n-th: the handle it resolves
\* with, 0 if that one is not ready, and the handles polled so far.
select_all(h, n) ==
    IF h[n + 1].status = "finished"
    THEN [resolved |-> n + 1, polled |-> n]
    ELSE [resolved |-> 0, polled |-> n + 1]

\* block_on(select_all(join_handles)) polls the next join handle, and
\* returns when it is ready; the tasks run on meanwhile.
Poll ==
    /\ spc = "waiting"
    /\ polled < Len(handles)
    /\ LET r == select_all(handles, polled) IN
         /\ resolved' = r.resolved
         /\ polled' = r.polled
         /\ spc' = IF r.resolved # 0 THEN "resolved" ELSE spc
    /\ UNCHANGED <<listener_vars, executor_vars, layers, wired, errors, added, handles, oneshots, stop_signal, run_result, finish_order>>

\* The pass found no handle ready and block_on sleeps; a task that ended
\* since its handle was polled wakes it, and the next pass starts from the
\* first handle.
Wake ==
    /\ spc = "waiting"
    /\ polled = Len(handles)
    /\ Done(handles) # {}
    /\ polled' = 0
    /\ UNCHANGED <<listener_vars, executor_vars, layers, wired, errors, added, handles, oneshots, stop_signal, spc, resolved, run_result, finish_order>>

\* run computes `failure`, wraps the remaining handles in their timeouts
\* and calls stop_sender.send(true).
SendStop ==
    /\ spc = "resolved"
    /\ stop_signal' = TRUE
    /\ spc' = "stopping"
    /\ UNCHANGED <<listener_vars, executor_vars, layers, wired, errors, added, handles, oneshots, resolved, run_result, finish_order, polled>>

\* TASK_SHUTDOWN_TIMEOUT elapses for a remaining task: it is dropped.
Timeout ==
    /\ spc = "stopping"
    /\ \E i \in DOMAIN handles :
          /\ i # resolved
          /\ handles[i].status = "running"
          /\ handles' = [handles EXCEPT ![i].status = "dropped"]
    /\ UNCHANGED <<listener_vars, executor_vars, layers, wired, errors, added, oneshots, stop_signal, spc, resolved, run_result, finish_order, polled>>

\* failure that looks at every task that ended.
failure_of_any(h, r) == \E i \in DOMAIN h : h[i].outcome \in {"Err", "Panic"}

\* `failure`: the resolved task returned an error or panicked.
failure(h, r) == h[r].outcome \in {"Err", "Panic"}

\* join_all of the remaining tasks is over: run returns.
Return ==
    /\ spc = "stopping"
    /\ \A i \in DOMAIN handles : handles[i].status # "running"
    /\ run_result' = IF failure(handles, resolved) THEN "Err" ELSE "Ok"
    /\ spc' = "returned"
    /\ UNCHANGED <<listener_vars, executor_vars, layers, wired, errors, added, handles, oneshots, stop_signal, resolved, finish_order, polled>>

NextService ==
    \/ Wire
    \/ Bail
    \/ Spawn
    \/ TaskFinishes
    \/ OneshotFinishes
    \/ SystemTaskFinishes
    \/ Poll
    \/ Wake
    \/ SendStop
    \/ Timeout
    \/ Return

SpecService == InitService /\ [][NextService]_vars

(* -------------------------- socket listener -------------------------- *)

\* Capacity of the shared witness vector queue.
Capacity == 2

\* Number of connections the listener accepts.
MaxFiles == 4

\* listen_incoming_connections is called: init() is about to run, the queue
\* is empty and the prover instance has no row yet.
InitListener ==
    /\ ExecutorNotRun
    /\ ServiceNotRun
    /\ witness_queue = <<>>
    /\ lock = "none"
    /\ listener = "init"
    /\ prover = "idle"
    /\ instance_status = "None"
    /\ status = "None"
    /\ after_add = <<>>
    /\ writes = <<>>
    /\ accepted = 0

\* TcpListener::bind(..): on an error init() returns it and
\* listen_incoming_connections returns Err.
Bind ==
    /\ listener = "init"
    /\ \E bound \in BOOLEAN :
          listener' = IF bound THEN "bound" ELSE "failed"
    /\ UNCHANGED <<executor_vars, service_vars, witness_queue, lock, prover, instance_status, status, after_add, writes, accepted>>

\* let _lock = self.queue.lock().await, in init().
InitLock ==
    /\ listener = "bound"
    /\ lock = "none"
    /\ lock' = "listener"
    /\ listener' = "init_locked"
    /\ UNCHANGED <<executor_vars, service_vars, witness_queue, prover, instance_status, status, after_add, writes, accepted>>

\* access_storage().await.unwrap() and insert_prover_instance(..): the
\* instance is inserted as available, init() returns and the guard is
\* dropped; when the pool gives no connection the unwrap panics.
InsertInstance ==
    /\ listener = "init_locked"
    /\ \E connected \in BOOLEAN :
          /\ listener' = IF connected THEN "accept" ELSE "panicked"
          /\ instance_status' = IF connected THEN "Available" ELSE instance_status
          /\ writes' = IF connected THEN Append(writes, [by |-> "init", status |-> "Available", queue |-> witness_queue, was |-> after_add]) ELSE writes
    /\ lock' = "none"
    /\ UNCHANGED <<executor_vars, service_vars, witness_queue, prover, status, after_add, accepted>>

\* The stop signal is seen at the top of the loop.
ListenerStops ==
    /\ listener = "accept"
    /\ listener' = "stopped"
    /\ UNCHANGED <<executor_vars, service_vars, witness_queue, lock, prover, instance_status, status, after_add, writes, accepted>>

\* A connection is accepted and its file read and deserialized; when the
\* accept, the read or the deserialization fails, the error is returned.
Accept ==
    /\ listener = "accept"
    /\ accepted < MaxFiles
    /\ accepted' = accepted + 1
    /\ \E readable \in BOOLEAN :
          listener' = IF readable THEN "read" ELSE "failed"
    /\ UNCHANGED <<executor_vars, service_vars, witness_queue, lock, prover, instance_status, status, after_add, writes>>

\* self.queue.lock().await
Lock ==
    /\ listener = "read"
    /\ lock = "none"
    /\ lock' = "listener"
    /\ listener' = "locked"
    /\ UNCHANGED <<executor_vars, service_vars, witness_queue, prover, instance_status, status, after_add, writes, accepted>>

\* FixedSizeQueue::add: fails when the queue is full.
add(q, job) == IF Len(q) >= Capacity THEN [ok |-> FALSE, queue |-> q] ELSE [ok |-> TRUE, queue |-> Append(q, job)]

\* if queue.capacity() == queue.size() { Full } else { Available }
status_of(capacity, size) == IF capacity = size THEN "Full" ELSE "Available"

\* Add that lets go of the queue lock once the job is in.
Add_releases_lock ==
    /\ listener = "locked"
    /\ LET r == add(witness_queue, accepted) IN
         /\ witness_queue' = r.queue
         /\ after_add' = r.queue
         /\ listener' = IF r.ok THEN "added" ELSE "failed"
         /\ status' = IF r.ok THEN status_of(Capacity, Len(r.queue)) ELSE status
         /\ lock' = "none"
    /\ UNCHANGED <<executor_vars, service_vars, prover, instance_status, writes, accepted>>

\* queue.add(gpu_prover_job)?, then the status is computed; on an error
\* handle_incoming_file returns it and the guard is dropped.
Add ==
    /\ listener = "locked"
    /\ LET r == add(witness_queue, accepted) IN
         /\ witness_queue' = r.queue
         /\ after_add' = r.queue
         /\ listener' = IF r.ok THEN "added" ELSE "failed"
         /\ status' = IF r.ok THEN status_of(Capacity, Len(r.queue)) ELSE status
         /\ lock' = IF r.ok THEN lock ELSE "none"
    /\ UNCHANGED <<executor_vars, service_vars, prover, instance_status, writes, accepted>>

Written(by, s) == [by |-> by, status |-> s, queue |-> witness_queue, was |-> after_add]

\* access_storage().await.unwrap() and update_prover_instance_status(..,
\* status, ..), then the guard is dropped at the end of handle_incoming_file
\* and the loop goes on; when the pool gives no connection the unwrap
\* panics, nothing is written and the guard is dropped by the unwinding.
UpdateStatus ==
    /\ listener = "added"
    /\ \E connected \in BOOLEAN :
          /\ listener' = IF connected THEN "accept" ELSE "panicked"
          /\ instance_status' = IF connected THEN status ELSE instance_status
          /\ writes' = IF connected THEN Append(writes, Written("listener", status)) ELSE writes
    /\ lock' = IF lock = "listener" THEN "none" ELSE lock
    /\ UNCHANGED <<executor_vars, service_vars, witness_queue, prover, status, after_add, accepted>>

\* The prover takes the queue lock.
ProverLock ==
    /\ prover = "idle"
    /\ lock = "none"
    /\ witness_queue # <<>>
    /\ lock' = "prover"
    /\ prover' = "holding"
    /\ UNCHANGED <<executor_vars, service_vars, witness_queue, listener, instance_status, status, after_add, writes, accepted>>

\* The prover removes a job, marks the instance available and lets the
\* lock go.
ProverTakes ==
    /\ prover = "holding"
    /\ witness_queue' = Tail(witness_queue)
    /\ instance_status' = "Available"
    /\ writes' = Append(writes, [by |-> "prover", status |-> "Available", queue |-> Tail(witness_queue), was |-> after_add])
    /\ lock' = "none"
    /\ prover' = "idle"
    /\ UNCHANGED <<executor_vars, service_vars, listener, status, after_add, accepted>>

NextListener ==
    \/ Bind
    \/ InitLock
    \/ InsertInstance
    \/ ListenerStops
    \/ Accept
    \/ Lock
    \/ Add
    \/ UpdateStatus
    \/ ProverLock
    \/ ProverTakes

SpecListener == InitListener /\ [][NextListener]_vars

(* ------------------------------ claims ------------------------------- *)

Last == hist[Len(hist)]

\* The loop was left by the return that follows the reply of a FinishBatch.
Sealed == pc \in {"sealing", "sealed"}

\* The task panicked.
Panicked == pc \in {"unwinding", "panicked"}

\* Every command sent was handled: the reply channel the caller holds is the
\* one of the last handled command.
Answered == sent = Len(hist)

\* The VM state and snapshot stack the i-th handled command started from.
Pre(i) == IF i = 1 THEN View(NewVm) ELSE hist[i - 1].post

\* The VM operations the last handled command invoked, in order.
LastOps == vm.ops

\* The reply of the last handled command is the one in the reply channel.
ReplyVisible == Answered /\ ~Panicked /\ hist # <<>>

VmRuns == {"inspect_transaction", "execute_bootloader", "finish_batch"}

Count(ops, name) == Cardinality({i \in DOMAIN ops : ops[i] = name})

LastIsTx == hist # <<>> /\ cur.kind = "ExecuteTx"

\* C1: a transaction whose gas limit is above the ceiling is answered
\* RejectedByVm{TooBigGasLimit}, and while handling it the engine runs neither
\* a transaction nor the finalization routine in the VM, whether or not the
\* compression retry is configured.
C1_TooBigGasLimitRejected ==
    (LastIsTx /\ cur.tx.gas_limit > cfg.max_allowed_tx_gas_limit) =>
        /\ Last.verdict = "RejectedByVm"
        /\ Last.reason = "TooBigGasLimit"
        /\ ReplyVisible =>
              reply = [kind |-> "RejectedByVm", reason |-> "TooBigGasLimit"]
        /\ \A k \in DOMAIN LastOps : LastOps[k] \notin VmRuns

C1_Witness ==
    /\ LastIsTx /\ cur.tx.gas_limit > cfg.max_allowed_tx_gas_limit
    /\ cfg.optional_bytecode_compression
    /\ ReplyVisible /\ reply.kind = "RejectedByVm"

\* C2: an ExecuteTx that replied (with any verdict) followed at once by a
\* RollbackLastTx leaves the VM state and the snapshot stack as they were
\* before the ExecuteTx.
C2_ExecuteThenRollbackRestores ==
    \A i \in DOMAIN hist :
        (/\ i + 1 \in DOMAIN hist
         /\ hist[i].kind = "ExecuteTx"
         /\ hist[i + 1].kind = "RollbackLastTx") =>
            /\ hist[i + 1].verdict = "Ack"
            /\ hist[i + 1].post = Pre(i)

\* An applied transaction whose first attempt failed to publish and was
\* retried, rolled back by the caller.
C2_Witness ==
    \E i \in DOMAIN hist :
        /\ i + 1 \in DOMAIN hist
        /\ hist[i].kind = "ExecuteTx" /\ hist[i].verdict = "Success"
        /\ Len(hist[i].post.state.log) = Len(Pre(i).state.log) + 1
        /\ hist[i].post.state.log[Len(hist[i].post.state.log)].mode = "plain"
        /\ cfg.optional_bytecode_compression
        /\ hist[i].post.state # Pre(i).state
        /\ hist[i + 1].kind = "RollbackLastTx"
        /\ hist[i + 1].post = Pre(i)

HasEffectOf(state, h) ==
    \E k \in DOMAIN state.log : state.log[k].op = "tx" /\ state.log[k].hash = h

\* C3: in ExecuteTx(A), ExecuteTx(B), RollbackLastTx, FinishBatch the
\* RollbackLastTx restores exactly the state that held when ExecuteTx(A)
\* completed, and the real finalization runs on that state, which has no effect
\* of B.
C3_RollbackUndoesOnlyLastTx ==
    \A i \in DOMAIN hist :
        (/\ i + 3 \in DOMAIN hist
         /\ hist[i].kind = "ExecuteTx"
         /\ hist[i + 1].kind = "ExecuteTx"
         /\ hist[i + 2].kind = "RollbackLastTx"
         /\ hist[i + 3].kind = "FinishBatch") =>
            /\ hist[i + 2].post = hist[i].post
            /\ Pre(i + 3).state = hist[i].post.state
            /\ ~HasEffectOf(Pre(i + 3).state, i + 1)
            /\ HasEffectOf(hist[i].post.state, i) =>
                  HasEffectOf(Pre(i + 3).state, i)

\* Both transactions were applied, and the batch was sealed with A alone.
C3_Witness ==
    \E i \in DOMAIN hist :
        /\ i + 3 \in DOMAIN hist
        /\ hist[i].kind = "ExecuteTx" /\ hist[i].verdict = "Success"
        /\ hist[i + 1].kind = "ExecuteTx" /\ hist[i + 1].verdict = "Success"
        /\ hist[i + 2].kind = "RollbackLastTx"
        /\ hist[i + 3].kind = "FinishBatch"
        /\ hist[i + 3].verdict = "FinishedBatch"
        /\ HasEffectOf(Pre(i + 3).state, i)
        /\ HasEffectOf(hist[i + 1].post.state, i + 1)

\* C4: when ExecuteTx replies Success or BootloaderOutOfGasForBlockTip, the
\* VM state is the state before the command plus the effect of the
\* transaction and nothing else: exactly one dry run was executed, no effect
\* of its finalization is left and its snapshot is gone, so a FinishBatch
\* handled next starts from the state after the transaction.
C4_DryRunRolledBack ==
    \A i \in DOMAIN hist :
        (/\ hist[i].kind = "ExecuteTx"
         /\ hist[i].verdict \in {"Success", "BootloaderOutOfGasForBlockTip"}) =>
            LET before == Pre(i).state.log
                after  == hist[i].post.state.log
            IN /\ i = Len(hist) => Count(LastOps, "execute_bootloader") = 1
               /\ Len(after) = Len(before) + 1
               /\ SubSeq(after, 1, Len(before)) = before
               /\ after[Len(after)].op = "tx"
               /\ after[Len(after)].hash = i
               /\ \A k \in DOMAIN after : after[k].op # "tip"
               /\ hist[i].post.snapshots =
                     Append(Pre(i).snapshots, Pre(i).state)
               /\ (i + 1 \in DOMAIN hist /\ hist[i + 1].kind = "FinishBatch") =>
                     /\ hist[i + 1].post.state.log = Append(after, TipEntry)
                     /\ hist[i + 1].verdict = "FinishedBatch"
                          <=> BlockTipResult(after) = Success

\* A dry run that ran out of gas was answered, and a FinishBatch followed.
C4_Witness ==
    \E i \in DOMAIN hist :
        /\ hist[i].kind = "ExecuteTx"
        /\ hist[i].verdict = "BootloaderOutOfGasForBlockTip"
        /\ i + 1 \in DOMAIN hist /\ hist[i + 1].kind = "FinishBatch"

AllTxsSucceeded(n) ==
    \A j \in 1..n : hist[j].kind = "ExecuteTx" => hist[j].verdict = "Success"

\* C5: when every ExecuteTx of the batch replied Success, FinishBatch does not
\* abort: the real finalization succeeds, the engine seals the batch and the
\* reply is a FinishedBatch artifact whose block-tip result is a success.
C5_FinishAfterSuccessesSucceeds ==
    (hist # <<>> /\ Last.kind = "FinishBatch" /\ AllTxsSucceeded(Len(hist) - 1)) =>
        /\ Last.verdict = "FinishedBatch"
        /\ Sealed
        /\ Answered =>
              /\ reply.kind = "FinishedBatch"
              /\ reply.block_tip_execution_result.result = Success

\* Two transactions replied Success and the batch was sealed.
C5_Witness ==
    /\ hist # <<>> /\ Last.kind = "FinishBatch" /\ Sealed
    /\ AllTxsSucceeded(Len(hist) - 1)
    /\ Cardinality({j \in DOMAIN hist : hist[j].kind = "ExecuteTx"}) >= 2
    /\ Len(Pre(Len(hist)).state.log) >= 2

Top(stack) == stack[Len(stack)]

\* C6 as stated: whenever ExecuteTx replies RejectedByVm, the VM state at the
\* reply is the state before that ExecuteTx.
C6_Original ==
    \A i \in DOMAIN hist :
        (hist[i].kind = "ExecuteTx" /\ hist[i].verdict = "RejectedByVm") =>
            hist[i].post.state = Pre(i).state

\* C6, amended: when ExecuteTx replies RejectedByVm{TooBigGasLimit} the VM
\* state at the reply is the state before that ExecuteTx; for any RejectedByVm
\* reply the engine has rolled nothing back itself: the pre-attempt snapshot
\* holding the state before the ExecuteTx is on top of the stack, and a
\* RollbackLastTx issued next by the caller restores that state.
C6_RejectedLeavesPreAttemptSnapshot ==
    \A i \in DOMAIN hist :
        (hist[i].kind = "ExecuteTx" /\ hist[i].verdict = "RejectedByVm") =>
            /\ hist[i].reason = "TooBigGasLimit" => hist[i].post.state = Pre(i).state
            /\ hist[i].post.snapshots # <<>>
            /\ Top(hist[i].post.snapshots) = Pre(i).state
            /\ (i + 1 \in DOMAIN hist /\ hist[i + 1].kind = "RollbackLastTx") =>
                  hist[i + 1].post.state = Pre(i).state

\* A transaction rejected for a halt, its effects in the state at the reply
\* and undone by the caller's RollbackLastTx.
C6_Witness ==
    \E i \in DOMAIN hist :
        /\ hist[i].kind = "ExecuteTx" /\ hist[i].verdict = "RejectedByVm"
        /\ hist[i].reason = "ValidationFailed"
        /\ hist[i].post.state # Pre(i).state
        /\ i + 1 \in DOMAIN hist /\ hist[i + 1].kind = "RollbackLastTx"
        /\ hist[i + 1].post.state = Pre(i).state

Rejections == {"RejectedByVm", "BootloaderOutOfGasForTx"}

\* Snapshots made minus snapshots rolled back or discarded, over ops.
Unresolved(ops) ==
    Count(ops, "make_snapshot") - Count(ops, "rollback") - Count(ops, "pop_snapshot")

\* C7 as stated: in every rejection case of ExecuteTx the snapshot stack is
\* as deep at the reply as it was before the command.
C7_Original ==
    \A i \in DOMAIN hist :
        (hist[i].kind = "ExecuteTx" /\ hist[i].verdict \in Rejections) =>
            Len(hist[i].post.snapshots) = Len(Pre(i).snapshots)

\* C7, amended: in every rejection case of ExecuteTx (gas limit above the
\* ceiling, a halt mapped to RejectedByVm, a halt mapped to
\* BootloaderOutOfGasForTx) the pre-attempt snapshot is still unresolved when
\* the reply is sent: the stack is exactly one deeper than before the command,
\* and only the inner snapshot of the compression retry has been resolved.
C7_RejectionKeepsPreAttemptSnapshot ==
    \A i \in DOMAIN hist :
        (hist[i].kind = "ExecuteTx" /\ hist[i].verdict \in Rejections) =>
            /\ Len(hist[i].post.snapshots) = Len(Pre(i).snapshots) + 1
            /\ SubSeq(hist[i].post.snapshots, 1, Len(Pre(i).snapshots))
                  = Pre(i).snapshots
            /\ i = Len(hist) => Unresolved(LastOps) = 1

\* A halt answered BootloaderOutOfGasForTx after the retry protocol made and
\* resolved its inner snapshot.
C7_Witness ==
    /\ LastIsTx /\ Last.verdict = "BootloaderOutOfGasForTx"
    /\ Count(LastOps, "make_snapshot") = 2
    /\ Len(vm.snapshots) = Len(Pre(Len(hist)).snapshots) + 1

\* The pre-attempt snapshots of the first n handled commands that no
\* RollbackLastTx has consumed, oldest first.
RECURSIVE PreAttemptSnapshots(_)
PreAttemptSnapshots(n) ==
    IF n = 0 THEN <<>>
    ELSE LET s == PreAttemptSnapshots(n - 1) IN
         CASE hist[n].kind = "ExecuteTx" -> Append(s, Pre(n).state)
           [] hist[n].kind = "RollbackLastTx" /\ s # <<>> ->
                SubSeq(s, 1, Len(s) - 1)
           [] OTHER -> s

\* C8 as stated: at every command boundary the snapshot stack holds no
\* unresolved snapshot.
C8_Original == pc \in {"running", "sealing", "sealed", "exited"} => vm.snapshots = <<>>

\* C8, amended: at every command boundary, and when FinishBatch has been
\* processed, the unresolved snapshots are exactly the pre-attempt snapshots
\* of the ExecuteTx commands that no RollbackLastTx has undone; the inner
\* snapshot of the compression retry and the dry-run snapshot are resolved
\* before the command that made them ends.
C8_OnlyPreAttemptSnapshotsOutlive ==
    vm.snapshots = PreAttemptSnapshots(Len(hist))

\* A batch sealed with two pre-attempt snapshots still on the stack.
C8_Witness ==
    /\ Sealed /\ Last.kind = "FinishBatch"
    /\ Len(vm.snapshots) = 2

\* The compression retry aborts: publication fails with and without
\* compression.
StepAborts(c, tx) ==
    c.optional_bytecode_compression /\ ~Published(tx, TRUE) /\ ~Published(tx, FALSE)

\* The result the execution step hands back to execute_tx for tx.
ReturnedResult(c, tx) ==
    IF ~c.optional_bytecode_compression /\ ~Published(tx, TRUE)
    THEN Halt("FailedToPublishCompressedBytecodes")
    ELSE tx.result

\* The last handled command executed a transaction within the gas ceiling
\* and its execution step returned.
LastTxExecuted ==
    /\ LastIsTx
    /\ cur.tx.gas_limit <= cfg.max_allowed_tx_gas_limit
    /\ ~StepAborts(cfg, cur.tx)

\* C9: when the result of the transaction's execution is a halt, ExecuteTx
\* replies and does not abort: BootloaderOutOfGas gives
\* BootloaderOutOfGasForTx, any other reason gives RejectedByVm with that
\* reason, and no block-tip dry run is executed.
C9_HaltIsAValue ==
    (LastTxExecuted /\ ReturnedResult(cfg, cur.tx).kind = "Halt") =>
        LET r == ReturnedResult(cfg, cur.tx).reason
            expected == IF r = "BootloaderOutOfGas"
                        THEN [kind |-> "BootloaderOutOfGasForTx"]
                        ELSE [kind |-> "RejectedByVm", reason |-> r]
        IN /\ ~Panicked
           /\ Last.verdict = expected.kind
           /\ expected.kind = "RejectedByVm" => Last.reason = r
           /\ ReplyVisible => reply = expected
           /\ Count(LastOps, "execute_bootloader") = 0
           /\ Count(LastOps, "finish_batch") = 0

\* Both kinds of halt were answered in one batch.
C9_Witness ==
    /\ LastTxExecuted /\ ReplyVisible
    /\ cur.tx.result = Halt("ValidationFailed")
    /\ reply = [kind |-> "RejectedByVm", reason |-> "ValidationFailed"]
    /\ \E i \in DOMAIN hist : hist[i].verdict = "BootloaderOutOfGasForTx"

\* C10: when the result of the transaction's execution is not a halt,
\* ExecuteTx runs exactly one block-tip dry run and its outcome decides the
\* reply: a successful dry run gives Success carrying the transaction result
\* and the dry-run result and metrics, a dry run halting with
\* BootloaderOutOfGas gives BootloaderOutOfGasForBlockTip, and Success is
\* replied in no other case.
C10_DryRunDecidesReply ==
    (LastTxExecuted /\ ReturnedResult(cfg, cur.tx).kind # "Halt") =>
        LET dry == BlockTipResult(Last.post.state.log) IN
        /\ Count(LastOps, "execute_bootloader") = 1
        /\ Last.verdict = "Success" <=> dry = Success
        /\ Last.verdict = "BootloaderOutOfGasForBlockTip"
              <=> dry = Halt("BootloaderOutOfGas")
        /\ (ReplyVisible /\ dry = Success) =>
              /\ reply.kind = "Success"
              /\ reply.tx_result = ResultAndLogs(cur.tx.result, <<"tx", cur.tx.hash>>)
              /\ reply.tx_metrics = ExecutionMetricsForCriteria(cur.tx, reply.tx_result)
              /\ reply.bootloader_dry_run_result.result = dry
              /\ reply.bootloader_dry_run_result.logs[1] = "tip"
              /\ reply.bootloader_dry_run_metrics =
                    ExecutionMetricsForCriteria(NoTx, reply.bootloader_dry_run_result)
        /\ (ReplyVisible /\ dry = Halt("BootloaderOutOfGas")) =>
              reply = [kind |-> "BootloaderOutOfGasForBlockTip"]

\* A reverted transaction answered Success after a transaction whose dry run
\* ran out of gas had been answered and rolled back.
C10_Witness ==
    /\ LastTxExecuted /\ ReplyVisible
    /\ cur.tx.result = Revert
    /\ reply.kind = "Success"
    /\ \E i \in DOMAIN hist : hist[i].verdict = "BootloaderOutOfGasForBlockTip"

\* The engine aborted while handling its last command: no reply was sent and
\* the loop is left for good.
Aborted == Panicked /\ Last.verdict = "Panic" /\ reply = NoReply

\* Nothing is handled after a command that aborted.
PanicIsLast == \A i \in DOMAIN hist : hist[i].verdict = "Panic" => i = Len(hist)

\* C11: when the block-tip dry run ends in a revert or in a halt other than
\* BootloaderOutOfGas, the engine aborts: the ExecuteTx gets no reply, no
\* command is handled after it, and the outcome is not turned into a reply
\* value.
C11_FailedDryRunAborts ==
    /\ PanicIsLast
    /\ (/\ LastTxExecuted
        /\ ReturnedResult(cfg, cur.tx).kind # "Halt"
        /\ BlockTipResult(Last.post.state.log)
              \notin {Success, Halt("BootloaderOutOfGas")}) =>
           /\ Aborted
           /\ (pc = "panicked") => queue = <<>>
           /\ Count(LastOps, "execute_bootloader") = 1

\* A second transaction whose dry run reverted.
C11_Witness ==
    /\ LastTxExecuted /\ Aborted /\ Len(hist) >= 2
    /\ BlockTipResult(Last.post.state.log) = Revert
    /\ hist[1].verdict = "Success"

\* C12: a FinishedBatch artifact is replied only when the real finalization
\* neither reverted nor halted; when it reverts or halts, BootloaderOutOfGas
\* included, the engine aborts before replying and the batch is not sealed.
C12_NoArtifactOfFailedFinalization ==
    (hist # <<>> /\ Last.kind = "FinishBatch") =>
        LET real == BlockTipResult(Pre(Len(hist)).state.log) IN
        /\ Count(LastOps, "finish_batch") = 1
        /\ is_failed(real) => Aborted
        /\ ~is_failed(real) =>
              /\ Sealed
              /\ Answered =>
                    /\ reply.kind = "FinishedBatch"
                    /\ reply.block_tip_execution_result.result = real

\* The real finalization reverted on the residue of a rejected transaction.
C12_Witness ==
    /\ hist # <<>> /\ Last.kind = "FinishBatch" /\ Aborted
    /\ BlockTipResult(Pre(Len(hist)).state.log) = Revert

\* The commands handled so far whose reply was a FinishedBatch artifact.
Artifacts == {i \in DOMAIN hist : hist[i].verdict = "FinishedBatch"}

\* C13: Sealed is terminal and the engine is single-use: a FinishBatch is the
\* last command an engine handles, a successful one is answered with the
\* artifact and leaves the loop, so an engine emits at most one artifact and
\* the last thing that happened to the VM of a sealed engine is the
\* finalization; a command the channel still takes before the task has
\* ended is never handled nor answered.
C13_SealedIsTerminal ==
    /\ \A i \in DOMAIN hist : hist[i].kind = "FinishBatch" => i = Len(hist)
    /\ Cardinality(Artifacts) <= 1
    /\ Sealed <=> (Artifacts # {})
    /\ Sealed =>
          /\ Last.kind = "FinishBatch"
          /\ cur.kind = "FinishBatch"
          /\ Answered => (queue = <<>> /\ reply.kind = "FinishedBatch")
          /\ ~Answered => (sent = Len(hist) + 1 /\ reply = NoReply)
          /\ (pc = "sealed") => queue = <<>>
          /\ LastOps = <<"finish_batch">>
          /\ View(vm) = Last.post
          /\ caller \in {"awaiting", "idle"}

\* The caller took the artifact and sent one more command, which the
\* channel took while the task was on its way to the return of run(): the
\* task ended and the command was dropped unanswered.
C13_Witness ==
    /\ pc = "sealed" /\ caller = "idle" /\ sent = Len(hist) + 1
    /\ Len(hist) >= 2 /\ hist[1].verdict = "Success"

\* C14: when the caller closes the command queue before a FinishBatch was
\* handled, the loop of an engine that got its storage ends normally: the
\* engine does not abort, runs no finalization and emits no artifact, and
\* the VM stays as the last handled command left it, whatever commands were
\* handled before.
C14_ClosedQueueEndsNormally ==
    /\ (caller = "closed" /\ storage = "Some") =>
          /\ pc \in {"starting", "running", "exited"}
          /\ queue = <<>>
          /\ (pc = "running") => ENABLED Exit
    /\ (pc = "exited") =>
          /\ caller = "closed"
          /\ \A i \in DOMAIN hist :
                hist[i].kind # "FinishBatch" /\ hist[i].verdict # "Panic"
          /\ Count(LastOps, "finish_batch") = 0
          /\ reply.kind # "FinishedBatch"
          /\ ~vm.panicked
          /\ View(vm) = IF hist = <<>> THEN View(NewVm) ELSE Last.post

\* The queue was closed on a batch with an applied transaction.
C14_Witness ==
    /\ pc = "exited" /\ Len(hist) >= 2
    /\ hist[1].verdict = "Success" /\ hist[2].kind = "StartNextMiniblock"

\* The task ended without entering the loop of run(): it got no storage.
NeverRan == pc # "starting" /\ storage # "Some"

\* C15: commands are handled one at a time in the order sent: the queue
\* holds at most one command, the i-th command handled is the i-th command
\* sent, a command still in the queue has no reply and every command before
\* it was answered, and a handled command has its reply unless the engine
\* aborted on it; a task that never entered the loop handles and answers
\* nothing, and a command the channel takes after the loop was left, at
\* most one, is neither handled nor answered.
C15_OneCommandAtATime ==
    /\ Len(queue) <= 1
    /\ ReceiverAlive => Len(hist) + Len(queue) = sent
    /\ ~ReceiverAlive => queue = <<>> /\ sent - Len(hist) \in {0, 1}
    /\ (pc \in {"running", "exited"}) => Answered \/ queue # <<>>
    /\ NeverRan => hist = <<>> /\ reply = NoReply
    /\ LastIsTx => cur.tx.hash = Len(hist)
    /\ (queue # <<>>) =>
          /\ reply = NoReply
          /\ caller = "awaiting"
          /\ (pc \in {"starting", "running"}) =>
                \A i \in DOMAIN hist : hist[i].verdict # "Panic"
          /\ Head(queue).kind = "ExecuteTx" => Head(queue).tx.hash = sent
    /\ (caller = "awaiting" /\ Answered /\ hist # <<>>) =>
          \/ reply.kind = Last.verdict
          \/ Aborted
    /\ ~Answered => reply = NoReply

\* The third command waits in the queue after two were answered.
C15_Witness ==
    /\ Len(queue) = 1 /\ Len(hist) = 2 /\ reply = NoReply
    /\ Head(queue).kind = "ExecuteTx" /\ hist[1].kind = "ExecuteTx"

\* The last handled command ran the compression retry protocol.
RetryProtocolRan ==
    /\ LastIsTx
    /\ cfg.optional_bytecode_compression
    /\ cur.tx.gas_limit <= cfg.max_allowed_tx_gas_limit

\* The first attempt of the last transaction was kept: one execution, whose
\* inner snapshot was discarded without a rollback.
FirstAttemptKept ==
    /\ Count(LastOps, "inspect_transaction") = 1
    /\ Count(LastOps, "pop_snapshot") = 1
    /\ SubSeq(LastOps, 1, 4) =
          <<"make_snapshot", "make_snapshot", "inspect_transaction", "pop_snapshot">>

\* C16 as stated: under the retry protocol the first attempt is kept only if
\* the publication succeeded and the transaction result is not a failure.
C16_Original ==
    (RetryProtocolRan /\ FirstAttemptKept) =>
        Published(cur.tx, TRUE) /\ ~is_failed(cur.tx.result)

\* C16: under the retry protocol the first attempt is kept exactly when its
\* publication succeeded, whether the transaction result is a failure or
\* not: the compressed execution is what stays in the VM, and a Success
\* reply carries its result and its compressed bytecodes.
C16_KeptIffPublished ==
    RetryProtocolRan =>
        /\ FirstAttemptKept <=> Published(cur.tx, TRUE)
        /\ FirstAttemptKept =>
              /\ Last.post.state.log =
                    Append(Pre(Len(hist)).state.log, TxEntry(cur.tx, TRUE))
              /\ (Last.verdict = "Success" /\ reply # NoReply) =>
                    /\ reply.tx_result.result = cur.tx.result
                    /\ reply.compressed_bytecodes = <<cur.tx.hash>>

\* A first attempt kept although the transaction halted.
C16_Witness ==
    /\ RetryProtocolRan /\ FirstAttemptKept
    /\ cur.tx.result.kind = "Halt" /\ Last.verdict = "RejectedByVm"

\* The VM as the command before the last handled one left it.
PreVm ==
    [NewVm EXCEPT !.state = Pre(Len(hist)).state,
                  !.snapshots = Pre(Len(hist)).snapshots]

\* ExecuteTx with the transaction executed once, compression off, from the
\* state v: the reference the retry is compared with.
ExecuteUncompressed(c, tx, v) ==
    LET v1 == pre_execute_snapshot(v)
        r == inspect_transaction_with_bytecode_compression(v1, tx, FALSE)
    IN
    IF r.result.result.kind = "Halt"
    THEN Reply(r.vm, halt_verdict(r.result.result.reason))
    ELSE dry_run_verdict(dryrun_block_tip(r.vm), r.result,
                         ExecutionMetricsForCriteria(tx, r.result),
                         get_last_tx_compressed_bytecodes(r.vm),
                         CallTrace(c, tx), gas_remaining(r.vm))

\* The last transaction failed to publish on the first attempt of the retry
\* protocol and published on the second.
Retried ==
    /\ RetryProtocolRan
    /\ ~Published(cur.tx, TRUE)
    /\ Published(cur.tx, FALSE)

\* C17: when the publication fails on the first attempt of the retry
\* protocol, the transaction is executed again with compression off from
\* the inner snapshot, and the VM state, the snapshot stack, the verdict and
\* the reply are those of executing it once with compression off from the
\* state before the command.
C17_RetryEqualsUncompressed ==
    Retried =>
        LET ref == ExecuteUncompressed(cfg, cur.tx, PreVm) IN
        /\ SubSeq(LastOps, 1, 5) =
              <<"make_snapshot", "make_snapshot", "inspect_transaction",
                "rollback", "inspect_transaction">>
        /\ Last.post = View(ref.vm)
        /\ Last.verdict = (IF ref.panic THEN "Panic" ELSE ref.reply.kind)
        /\ ref.panic <=> Panicked
        /\ (Answered /\ ~ref.panic) => reply = ref.reply

\* A retried transaction applied on top of an earlier one.
C17_Witness ==
    /\ Retried /\ Len(hist) >= 2 /\ hist[1].verdict = "Success"
    /\ Last.verdict = "Success" /\ reply # NoReply
    /\ HasEffectOf(Last.post.state, cur.tx.hash)

\* C18: the second attempt of the retry protocol must report its
\* publication as done: when it reports a failure the engine aborts before
\* any dry run and any reply, so an ExecuteTx that executed twice and did
\* not abort there took its result from an attempt that published.
C18_SecondAttemptMustPublish ==
    /\ (RetryProtocolRan /\ ~Published(cur.tx, TRUE) /\ ~Published(cur.tx, FALSE)) =>
          /\ Aborted
          /\ LastOps = <<"make_snapshot", "make_snapshot", "inspect_transaction",
                         "rollback", "inspect_transaction">>
    /\ (LastIsTx /\ Count(LastOps, "inspect_transaction") = 2
          /\ (Last.verdict # "Panic" \/ Count(LastOps, "execute_bootloader") > 0)) =>
          /\ Published(cur.tx, FALSE)
          /\ \A i \in DOMAIN Last.post.state.log :
                Last.post.state.log[i].hash = cur.tx.hash =>
                    Last.post.state.log[i].mode = "plain"

\* The second attempt of a second transaction failed to publish.
C18_Witness ==
    /\ RetryProtocolRan /\ Aborted /\ Len(hist) >= 2
    /\ ~Published(cur.tx, FALSE)
    /\ Count(LastOps, "inspect_transaction") = 2

\* The last handled command executed its transaction without the retry
\* protocol.
SingleAttemptRan ==
    /\ LastIsTx
    /\ ~cfg.optional_bytecode_compression
    /\ cur.tx.gas_limit <= cfg.max_allowed_tx_gas_limit

FailedToPublish == "FailedToPublishCompressedBytecodes"

\* C19: without the retry protocol the transaction is executed exactly once,
\* under no snapshot but the pre-attempt one; when its publication fails the
\* result is overridden with Halt(FailedToPublishCompressedBytecodes) and
\* comes with no compressed bytecodes and no call trace, ExecuteTx replies
\* RejectedByVm with that reason and runs no dry run.
C19_SingleAttemptRejectsUnpublished ==
    SingleAttemptRan =>
        /\ Count(LastOps, "inspect_transaction") = 1
        /\ SubSeq(LastOps, 1, 2) = <<"make_snapshot", "inspect_transaction">>
        /\ Count(LastOps, "pop_snapshot") = 0
        /\ Count(LastOps, "rollback") = Count(LastOps, "execute_bootloader")
        /\ ~Published(cur.tx, TRUE) =>
              LET e == execute_tx_in_vm(cfg, cur.tx, pre_execute_snapshot(PreVm)) IN
              /\ e.result.result = Halt(FailedToPublish)
              /\ e.compressed_bytecodes = <<>>
              /\ e.trace = <<>>
              /\ LastOps = <<"make_snapshot", "inspect_transaction">>
              /\ Last.verdict = "RejectedByVm"
              /\ Last.reason = FailedToPublish
              /\ Last.post = View(e.vm)
              /\ (queue = <<>>) =>
                    reply = [kind |-> "RejectedByVm", reason |-> FailedToPublish]

\* A successful transaction rejected for its unpublished bytecodes by an
\* engine that saves call traces.
C19_Witness ==
    /\ SingleAttemptRan /\ cfg.save_call_traces
    /\ ~Published(cur.tx, TRUE) /\ cur.tx.result = Success
    /\ reply = [kind |-> "RejectedByVm", reason |-> FailedToPublish]
    /\ Len(hist) >= 2

\* C20: snapshots are resolved last made, first resolved, and the dry-run
\* snapshot does not outlive its command: the finalization of a dry run
\* runs right after its snapshot is made and right before it is rolled
\* back, every rollback or discard inside ExecuteTx finds a snapshot made
\* after the pre-attempt one, every snapshot after the pre-attempt one is
\* made on top of it alone, and ExecuteTx ends with the stack it found plus
\* its pre-attempt snapshot; a RollbackLastTx takes the top of the stack.
C20_SnapshotsResolvedLastInFirstOut ==
    /\ \A i \in DOMAIN hist :
          hist[i].kind = "ExecuteTx" =>
              hist[i].post.snapshots = Append(Pre(i).snapshots, Pre(i).state)
    /\ LastIsTx =>
          /\ ~vm.panicked
          /\ LastOps[1] = "make_snapshot"
          /\ \A k \in DOMAIN LastOps :
                LET before == Unresolved(SubSeq(LastOps, 1, k - 1)) IN
                /\ LastOps[k] = "execute_bootloader" =>
                      /\ k > 1 /\ LastOps[k - 1] = "make_snapshot"
                      /\ k < Len(LastOps) /\ LastOps[k + 1] = "rollback"
                /\ LastOps[k] \in {"rollback", "pop_snapshot"} => before = 2
                /\ (LastOps[k] = "make_snapshot" /\ k > 1) => before = 1
    /\ (hist # <<>> /\ Last.kind = "RollbackLastTx"
          /\ Pre(Len(hist)).snapshots # <<>>) =>
          /\ Last.post.state = Top(Pre(Len(hist)).snapshots)
          /\ Append(Last.post.snapshots, Last.post.state) = Pre(Len(hist)).snapshots

\* A transaction that resolved an inner snapshot and a dry-run snapshot on
\* top of the pre-attempt snapshot of an earlier one.
C20_Witness ==
    /\ LastIsTx /\ Len(hist) >= 2 /\ hist[1].verdict = "Success"
    /\ Count(LastOps, "rollback") = 2
    /\ Count(LastOps, "execute_bootloader") = 1
    /\ Len(vm.snapshots) = 2

\* C21 as stated: when the storage acquisition yields no storage init_batch
\* returns no handle, and a handle is returned only when an engine loop is
\* going to run.
C21_NoStorageNoHandle ==
    /\ storage = "None" => handle = "None"
    /\ handle = "Some" => (pc # "no_storage")

\* Command i was answered BootloaderOutOfGasForBlockTip after nothing but
\* transactions answered Success, and was followed by RollbackLastTx and
\* FinishBatch.
OutOfGasTipThenRollbackThenFinish(i) ==
    /\ hist[i].verdict = "BootloaderOutOfGasForBlockTip"
    /\ \A j \in 1..(i - 1) :
          hist[j].kind = "ExecuteTx" /\ hist[j].verdict = "Success"
    /\ i + 2 \in DOMAIN hist
    /\ hist[i + 1].kind = "RollbackLastTx"
    /\ hist[i + 2].kind = "FinishBatch"

\* C22: after ExecuteTx replied BootloaderOutOfGasForBlockTip for a
\* transaction that followed only Success transactions or nothing,
\* RollbackLastTx then FinishBatch succeeds: the real finalization runs on
\* the state before the offending transaction, the engine does not abort
\* and the reply is the FinishedBatch artifact.
C22_RollbackAfterOutOfGasTipThenFinish ==
    \A i \in DOMAIN hist :
        OutOfGasTipThenRollbackThenFinish(i) =>
            /\ hist[i + 1].verdict = "Ack"
            /\ hist[i + 1].post = Pre(i)
            /\ ~HasEffectOf(hist[i + 2].post.state, i)
            /\ hist[i + 2].post.state = vm_finish_batch(PreVm).vm.state
            /\ hist[i + 2].verdict = "FinishedBatch"
            /\ Sealed
            /\ Answered => reply.block_tip_execution_result.result = Success

\* The second transaction ran the block tip out of gas, was rolled back and
\* the batch was sealed with the first one.
C22_Witness ==
    /\ Len(hist) = 4 /\ OutOfGasTipThenRollbackThenFinish(2)
    /\ Sealed /\ HasEffectOf(vm.state, 1)

\* The batch's only ExecuteTx was rejected for its gas limit and FinishBatch
\* followed, right away or after a RollbackLastTx.
OnlyTooBigThenFinish ==
    /\ hist # <<>>
    /\ hist[1].kind = "ExecuteTx"
    /\ hist[1].verdict = "RejectedByVm" /\ hist[1].reason = "TooBigGasLimit"
    /\ Last.kind = "FinishBatch"
    /\ \/ Len(hist) = 2
       \/ Len(hist) = 3 /\ hist[2].kind = "RollbackLastTx"

\* C23: in a batch whose only ExecuteTx was rejected with
\* RejectedByVm{TooBigGasLimit}, a following FinishBatch, with or without a
\* RollbackLastTx in between, succeeds: the finalization runs on the
\* initial state and seals a batch with no transaction in it.
C23_FinishAfterTooBigGasLimit ==
    OnlyTooBigThenFinish =>
        /\ Pre(Len(hist)).state = EmptyState
        /\ Last.post.state = vm_finish_batch(NewVm).vm.state
        /\ \A h \in 1..MaxCommands : ~HasEffectOf(vm.state, h)
        /\ Last.verdict = "FinishedBatch"
        /\ Sealed
        /\ Answered => reply.block_tip_execution_result.result = Success

\* Sealed right after the rejection, the pre-attempt snapshot still there.
C23_Witness ==
    /\ OnlyTooBigThenFinish /\ Len(hist) = 2 /\ Sealed
    /\ Len(vm.snapshots) = 1

\* C24: the FinishBatch reply carries the witness state exactly when
\* upload_witness_inputs_to_gcs was set at construction; when it is not
\* set the witness state is absent and is never read from the storage view;
\* the block-tip result is in the reply in both cases.
C24_WitnessIffConfigured ==
    /\ vm.witness_reads =
          (IF Sealed /\ cfg.upload_witness_inputs_to_gcs THEN 1 ELSE 0)
    /\ (Sealed /\ Answered) =>
          /\ reply.block_tip_execution_result =
                vm_finish_batch(PreVm).block_tip_execution_result
          /\ reply.witness_block_state =
                (IF cfg.upload_witness_inputs_to_gcs
                 THEN <<witness_block_state(vm)>> ELSE <<>>)

\* An artifact without witness state, sealed after an applied transaction.
C24_Witness ==
    /\ Sealed /\ Answered /\ ~cfg.upload_witness_inputs_to_gcs
    /\ reply.witness_block_state = <<>>
    /\ reply.block_tip_execution_result.result = Success
    /\ HasEffectOf(vm.state, 1)

\* C25: StartNextMiniblock only forwards the new block to the VM: it makes
\* no snapshot, resolves none and leaves the stack and the transactions'
\* effects as they were, so a RollbackLastTx after ExecuteTx,
\* StartNextMiniblock restores the state before that ExecuteTx.
C25_StartNextMiniblockKeepsSnapshots ==
    /\ (hist # <<>> /\ Last.kind = "StartNextMiniblock") =>
          /\ LastOps = <<"start_new_l2_block">>
          /\ Last.verdict = "Ack"
    /\ \A i \in DOMAIN hist :
          hist[i].kind = "StartNextMiniblock" =>
              /\ hist[i].post.snapshots = Pre(i).snapshots
              /\ hist[i].post.state.log = Pre(i).state.log
              /\ hist[i].post.state.block = Pre(i).state.block + 1
              /\ (i > 1 /\ hist[i - 1].kind = "ExecuteTx" /\ i < Len(hist)
                    /\ hist[i + 1].kind = "RollbackLastTx") =>
                    /\ hist[i + 1].verdict = "Ack"
                    /\ hist[i + 1].post = Pre(i - 1)

\* An applied transaction undone across a block boundary.
C25_Witness ==
    /\ Len(hist) >= 3
    /\ hist[1].verdict = "Success" /\ hist[2].kind = "StartNextMiniblock"
    /\ hist[3].kind = "RollbackLastTx" /\ hist[3].post = View(NewVm)

\* The reply receiver of the last handled command was dropped before the
\* engine sent the reply.
ReplyReceiverGone == rx = "dropped" /\ Answered /\ hist # <<>>

\* C26: when the caller dropped the reply receiver of a command, the send of
\* its reply fails and the engine aborts there: the command is the last one
\* handled, nothing reaches the caller, and a FinishBatch so answered does
\* not leave the engine sealed.
C26_DroppedReceiverAborts ==
    /\ ReplyReceiverGone =>
          /\ Panicked
          /\ reply = NoReply
          /\ caller = "awaiting"
          /\ queue = <<>>
    /\ (Sealed /\ Answered) => rx = "open"
    /\ (pc = "panicked") => queue = <<>>
    /\ (Panicked /\ storage = "Some") => sent - Len(hist) \in {0, 1}

\* A FinishBatch whose finalization succeeded and whose reply had no
\* receiver.
C26_Witness ==
    /\ ReplyReceiverGone /\ Last.kind = "FinishBatch"
    /\ Last.verdict = "FinishedBatch" /\ Panicked
    /\ Len(hist) >= 2

\* What run returns when the task of outcome o decides it.
ResultOf(o) == IF o \in {"Err", "Panic"} THEN "Err" ELSE "Ok"

\* The tasks that ended before the stop signal was sent.
EndedUnasked == {finish_order[k].task : k \in {n \in DOMAIN finish_order : ~finish_order[n].stopped}}

\* C27 as stated: the result of run is decided by the task that finished
\* first.
C27_Original ==
    (spc = "returned" /\ resolved # 0) =>
        run_result = ResultOf(handles[finish_order[1].task].outcome)

\* C27: run waits until it finds a task finished, then sends the stop
\* signal and waits for every remaining task until it ends or its shutdown
\* timeout elapses; its result is decided by one task alone, the one the
\* wait resolved with, which ended before the stop signal was sent and is
\* the task that finished first whenever no other one ended before the
\* stop signal: Err if it returned an error or panicked, Ok otherwise,
\* whatever the remaining tasks return.
C27_ResultOfTheResolvedTask ==
    /\ stop_signal => resolved # 0
    /\ (spc = "waiting") <=> (handles # <<>> /\ resolved = 0)
    /\ (resolved # 0) =>
          /\ resolved \in EndedUnasked
          /\ handles[resolved].status = "finished"
          /\ finish_order[1].task \in EndedUnasked
          /\ EndedUnasked = {finish_order[1].task} => resolved = finish_order[1].task
    /\ (spc = "returned" /\ resolved # 0) =>
          /\ stop_signal
          /\ run_result = ResultOf(handles[resolved].outcome)
          /\ \A i \in DOMAIN handles : handles[i].status \in {"finished", "dropped"}

\* run returned Ok although a remaining task failed and another was dropped
\* at its timeout.
C27_Witness ==
    /\ spc = "returned" /\ run_result = "Ok" /\ Len(handles) = 3
    /\ \E i \in DOMAIN handles : i # resolved /\ handles[i].outcome = "Panic"
    /\ \E i \in DOMAIN handles : handles[i].status = "dropped"

\* C28: run wires every layer, in the order the layers were added, also
\* after a layer failed; when a layer failed, or when the wiring added no
\* task (preconditions do not count), run returns an error with no task
\* started and no stop signal sent.
C28_WiringErrorsReturnBeforeAnyTask ==
    /\ wired <= Len(layers)
    /\ errors = SelectSeq([i \in 1..wired |-> i], LAMBDA i : layers[i].fails)
    /\ (spc \notin {"wiring", "not_run"}) =>
          /\ wired = Len(layers)
          /\ (errors # <<>> \/ NoTasks(added)) =>
                /\ spc = "returned"
                /\ run_result = "Err"
                /\ handles = <<>> /\ oneshots = <<>>
                /\ finish_order = <<>>
                /\ ~stop_signal
          /\ (errors = <<>> /\ ~NoTasks(added)) => handles # <<>>

\* The first layer failed, the second was wired all the same and added a
\* task, and run returned an error.
C28_Witness ==
    /\ spc = "returned" /\ run_result = "Err" /\ Len(layers) = 2
    /\ layers[1].fails /\ ~layers[2].fails /\ wired = 2
    /\ added = <<"task">> /\ handles = <<>>

\* C29: a transaction whose own result is a revert is applied, not
\* rejected: ExecuteTx runs the block-tip dry run on the state with the
\* transaction in it, and when the dry run succeeds it replies Success with
\* the revert as the transaction result and the effects stay in the VM.
C29_RevertedTxIsApplied ==
    (LastTxExecuted /\ ReturnedResult(cfg, cur.tx) = Revert) =>
        /\ Last.verdict \notin Rejections
        /\ Count(LastOps, "execute_bootloader") = 1
        /\ HasEffectOf(Last.post.state, cur.tx.hash)
        /\ BlockTipResult(Last.post.state.log) = Success =>
              /\ Last.verdict = "Success"
              /\ (queue = <<>>) =>
                    /\ reply.kind = "Success"
                    /\ reply.tx_result.result = Revert
                    /\ reply.bootloader_dry_run_result.result = Success

\* A reverted transaction applied on top of an earlier one.
C29_Witness ==
    /\ LastTxExecuted /\ cur.tx.result = Revert /\ Len(hist) >= 2
    /\ reply.kind = "Success" /\ HasEffectOf(vm.state, cur.tx.hash)
    /\ hist[1].verdict = "Success"

\* By how much a completed command of that kind changes the stack depth.
DepthChange(kind) ==
    CASE kind = "ExecuteTx" -> 1
      [] kind = "RollbackLastTx" -> -1
      [] OTHER -> 0

Handled(kind) == Cardinality({i \in DOMAIN hist : hist[i].kind = kind})

\* C30: every completed ExecuteTx, whatever it replied, leaves the stack one
\* snapshot deeper than it found it and every completed RollbackLastTx one
\* shallower; at a command boundary the depth is the number of ExecuteTx
\* handled minus the number of RollbackLastTx handled, and inside a command
\* the depth is never more than 2 above the depth at its start.
C30_StackDepthCountsCommands ==
    /\ \A i \in DOMAIN hist :
          hist[i].verdict # "Panic" =>
              Len(hist[i].post.snapshots) =
                  Len(Pre(i).snapshots) + DepthChange(hist[i].kind)
    /\ (~Panicked) =>
          Len(vm.snapshots) = Handled("ExecuteTx") - Handled("RollbackLastTx")
    /\ \A k \in DOMAIN LastOps : Unresolved(SubSeq(LastOps, 1, k)) <= 2

\* Two transactions handled, one rolled back, one snapshot left.
C30_Witness ==
    /\ pc = "running" /\ Handled("ExecuteTx") = 2 /\ Handled("RollbackLastTx") = 1
    /\ Len(vm.snapshots) = 1 /\ hist[2].verdict \in Rejections

\* Command i was answered BootloaderOutOfGasForBlockTip.
OutOfGasForBlockTip(i) ==
    i \in DOMAIN hist /\ hist[i].verdict = "BootloaderOutOfGasForBlockTip"

\* C31: the engine does not undo a transaction answered
\* BootloaderOutOfGasForBlockTip: its effects and its pre-attempt snapshot
\* stay until a RollbackLastTx, and a FinishBatch sent right after it
\* finalizes the state the dry run failed on, halts out of gas as the dry
\* run did, and aborts the engine with no artifact.
C31_OutOfGasTipStaysApplied ==
    \A i \in DOMAIN hist :
        OutOfGasForBlockTip(i) =>
            /\ HasEffectOf(hist[i].post.state, i)
            /\ BlockTipResult(hist[i].post.state.log) = Halt("BootloaderOutOfGas")
            /\ hist[i].post.snapshots = Append(Pre(i).snapshots, Pre(i).state)
            /\ (i = Len(hist)) => View(vm) = hist[i].post
            /\ (i < Len(hist) /\ hist[i + 1].kind = "FinishBatch") =>
                  /\ i + 1 = Len(hist)
                  /\ LastOps = <<"finish_batch">>
                  /\ vm_finish_batch(PreVm).block_tip_execution_result.result
                        = Halt("BootloaderOutOfGas")
                  /\ Aborted
                  /\ Artifacts = {}
                  /\ vm.witness_reads = 0

\* A FinishBatch sent right after the second transaction ran the block tip
\* out of gas.
C31_Witness ==
    /\ Len(hist) = 3 /\ OutOfGasForBlockTip(2) /\ hist[1].verdict = "Success"
    /\ Last.kind = "FinishBatch" /\ Aborted

\* The status writes of the listener so far.
ListenerWrites == {k \in DOMAIN writes : writes[k].by = "listener"}

\* The job whose admission the k-th status write followed.
Admitted(k) == writes[k].queue[Len(writes[k].queue)]

\* C32: the listener admits a job and writes the instance status inside one
\* hold of the queue lock: from the add to the write the lock is the
\* listener's and the queue is as the add left it, the status written is
\* Full exactly when the queue is at its capacity after the add and
\* Available otherwise, and a failed add writes no status.
C32_AdmissionAndStatusUnderOneLock ==
    /\ (listener \in {"init_locked", "locked", "added"}) => lock = "listener"
    /\ (prover = "holding") => lock = "prover"
    /\ (listener = "added") =>
          /\ witness_queue = after_add
          /\ status = (IF Len(after_add) = Capacity THEN "Full" ELSE "Available")
    /\ \A k \in ListenerWrites :
          /\ writes[k].queue = writes[k].was
          /\ (writes[k].status = "Full") <=> (Len(writes[k].queue) = Capacity)
          /\ (writes[k].status = "Available") <=> (Len(writes[k].queue) < Capacity)
    /\ Len(witness_queue) <= Capacity
    /\ (listener \in {"failed", "panicked"}) => lock # "listener"
    /\ \A k \in ListenerWrites :
          /\ writes[k].queue # <<>>
          /\ \A n \in ListenerWrites : Admitted(n) = Admitted(k) => n = k
          /\ (listener \in {"failed", "panicked"}) => Admitted(k) # accepted

\* The instance was marked Full by the listener, then Available again
\* after the prover took a job and a third job was admitted.
C32_Witness ==
    /\ \E k \in ListenerWrites : writes[k].status = "Full"
    /\ \E k \in DOMAIN writes : writes[k].by = "prover"
    /\ accepted = 3 /\ listener = "accept" /\ Cardinality(ListenerWrites) = 3

====
